---- MODULE Spec2Model ----
(***************************************************************************)
(* Receipt upload pipeline of the Personal Finance Assistant backend       *)
(* (backend/routes/receipts.js): the upload-image and upload-pdf routes    *)
(* with their upload middleware, the text extractors extractReceiptData    *)
(* and parseTransactionHistory and the regular expressions they apply.     *)
(*                                                                         *)
(* Text is a TLA+ string; a character is a string of length one.  Amounts  *)
(* are counted in hundredths (parseFloat of a capture with at most two     *)
(* fraction digits); a date is the triple <<year, month, day>>.            *)
(***************************************************************************)
EXTENDS Integers, Sequences, FiniteSets, TLC

VARIABLES
    route,      \* "image" | "pdf": the endpoint the request targets
    attached,   \* mimetype of the part named receipt, "" when the request carries none
    decoded,    \* what OCR / fetch + pdfParse yield: [kind |-> "text" | "undefined" | "throws" | "unused", text]
    pc,         \* "multer" | "handler" | "extract" | "fallback" | "done"
    reqFile,    \* TRUE iff req.file was set by the upload middleware
    extractedData,  \* the extractedData object of extractReceiptData
    responses,  \* the responses written for the request, in order
    inputs,     \* the texts the helper functions are still to be called with, in order
    calls,      \* the direct calls made so far, in order: [fn, input, result]
    store,      \* the Transaction collection: a set of [id, user, type, category, amount]
    createdBy,  \* for each id, the user whose request created the transaction ("" when none)
    served,     \* the last request served by the JSON API and its response
    processing,     \* ReceiptsPage: the processing state
    uploadProgress, \* ReceiptsPage: the uploadProgress state
    uploadError,    \* ReceiptsPage: the error state
    uploads,        \* ReceiptsPage: the calls of handleFileUpload so far, each with
                    \* its phase, its progress interval and its reset timer
    user,       \* AuthProvider: the user state
    loading,    \* AuthProvider: the loading state
    error,      \* AuthProvider: the error state
    apiToken,   \* apiClient.token
    localToken, \* localStorage.getItem('token')
    mounted,    \* AuthProvider: the mount effect has run
    pending,    \* AuthProvider: the calls awaiting the server's answer
    settled     \* AuthProvider: the call that finished last, and how

\* the state of the JSON API
api == <<store, createdBy, served>>

\* the state of ReceiptsPage
page == <<processing, uploadProgress, uploadError, uploads>>

\* the state of AuthProvider and of apiClient
provider == <<user, loading, error, apiToken, localToken, mounted, pending, settled>>

vars ==
    <<route, attached, decoded, pc, reqFile, extractedData, responses, inputs, calls,
      store, createdBy, served, processing, uploadProgress, uploadError, uploads,
      user, loading, error, apiToken, localToken, mounted, pending, settled>>

-----------------------------------------------------------------------------
(* Characters *)

LowerChars == "abcdefghijklmnopqrstuvwxyz"
UpperChars == "ABCDEFGHIJKLMNOPQRSTUVWXYZ"
DigitChars == "0123456789"

CharAt(s, i) == SubSeq(s, i, i)

CharsOf(s) == {CharAt(s, i) : i \in 1..Len(s)}

Digit == CharsOf(DigitChars)
Letter == CharsOf(LowerChars) \cup CharsOf(UpperChars)
WhiteSpace == {" ", "\t", "\r", "\n"}

\* the lower-case and upper-case form of each letter
LowerOf ==
    [c \in CharsOf(UpperChars) |->
        CharAt(LowerChars, CHOOSE i \in 1..Len(UpperChars) : CharAt(UpperChars, i) = c)]

UpperOf ==
    [c \in CharsOf(LowerChars) |->
        CharAt(UpperChars, CHOOSE i \in 1..Len(LowerChars) : CharAt(LowerChars, i) = c)]

\* String.prototype.toLowerCase, one character at a time
LowerChar(c) == IF c \in DOMAIN LowerOf THEN LowerOf[c] ELSE c

UpperChar(c) == IF c \in DOMAIN UpperOf THEN UpperOf[c] ELSE c

RECURSIVE toLowerCase(_)
toLowerCase(s) ==
    IF s = "" THEN "" ELSE LowerChar(Head(s)) \o toLowerCase(Tail(s))

\* String.prototype.includes
includes(s, sub) ==
    \E i \in 1..(Len(s) - Len(sub) + 1) : SubSeq(s, i, i + Len(sub) - 1) = sub

\* String.prototype.trim
RECURSIVE trimStart(_)
trimStart(s) ==
    IF s # "" /\ Head(s) \in WhiteSpace THEN trimStart(Tail(s)) ELSE s

RECURSIVE trimEnd(_)
trimEnd(s) ==
    IF s # "" /\ CharAt(s, Len(s)) \in WhiteSpace
    THEN trimEnd(SubSeq(s, 1, Len(s) - 1))
    ELSE s

trim(s) == trimEnd(trimStart(s))

\* String.prototype.split('\n')
RECURSIVE split(_)
split(s) ==
    IF ~includes(s, "\n") THEN <<s>>
    ELSE LET i == CHOOSE k \in 1..Len(s) :
                     CharAt(s, k) = "\n" /\ \A h \in 1..(k - 1) : CharAt(s, h) # "\n"
         IN  <<SubSeq(s, 1, i - 1)>> \o split(SubSeq(s, i + 1, Len(s)))

\* text.split('\n').map(line => line.trim()).filter(line => line.length > 0)
RECURSIVE trimNonEmpty(_)
trimNonEmpty(ls) ==
    IF ls = <<>> THEN <<>>
    ELSE IF Len(trim(Head(ls))) > 0
         THEN <<trim(Head(ls))>> \o trimNonEmpty(Tail(ls))
         ELSE trimNonEmpty(Tail(ls))

\* the line stream without the map and the filter of line 78
normalizeLinesSplitOnly(text) == split(text)

normalizeLines(text) == trimNonEmpty(split(text))

-----------------------------------------------------------------------------
(* Regular expressions of the shapes the source uses: a concatenation of   *)
(* quantified character classes, with capture groups over atom ranges.     *)
(* An atom is [neg, chars, min, max, greedy]; max = Unbounded is "no upper *)
(* limit".  Matching is the backtracking search of String.prototype.match  *)
(* without the g flag: leftmost start, and at each atom the counts are     *)
(* tried longest first (greedy) or shortest first (lazy).                  *)

Unbounded == -1

Atom(neg, chars, min, max, greedy) ==
    [neg |-> neg, chars |-> chars, min |-> min, max |-> max, greedy |-> greedy]

One(chars) == Atom(FALSE, chars, 1, 1, TRUE)
Opt(chars) == Atom(FALSE, chars, 0, 1, TRUE)
Star(chars) == Atom(FALSE, chars, 0, Unbounded, TRUE)
Plus(chars) == Atom(FALSE, chars, 1, Unbounded, TRUE)
Rep(chars, min, max) == Atom(FALSE, chars, min, max, TRUE)
\* .+?  (the dot excludes line terminators)
DotPlusLazy == Atom(TRUE, {"\n", "\r"}, 1, Unbounded, FALSE)

\* a literal word; under the i flag each letter matches in both cases
RECURSIVE Lit(_, _)
Lit(word, ignoreCase) ==
    IF word = "" THEN <<>>
    ELSE <<One(IF ignoreCase THEN {LowerChar(Head(word)), UpperChar(Head(word))}
                             ELSE {Head(word)})>>
         \o Lit(Tail(word), ignoreCase)

\* \w; the i flag adds nothing to it
WordChar == Letter \cup Digit \cup {"_"}
\* \s
SpaceChar == WhiteSpace

InClass(a, c) == IF a.neg THEN c \notin a.chars ELSE c \in a.chars

\* how many characters from pos on belong to the atom's class, up to its max
RECURSIVE Run(_, _, _, _)
Run(a, s, pos, n) ==
    IF pos + n <= Len(s) /\ (a.max = Unbounded \/ n < a.max) /\ InClass(a, CharAt(s, pos + n))
    THEN Run(a, s, pos, n + 1)
    ELSE n

NoMatch == [ok |-> FALSE, start |-> 0, ends |-> <<>>]

\* atoms k.. of the expression against s from position pos: the end position
\* of every atom, for the first alternative of the backtracking order
RECURSIVE MatchAtoms(_, _, _, _)
RECURSIVE TryCount(_, _, _, _, _, _)
MatchAtoms(atoms, k, s, pos) ==
    IF k > Len(atoms) THEN [ok |-> TRUE, start |-> 0, ends |-> <<>>]
    ELSE LET a == atoms[k]
             r == Run(a, s, pos, 0)
         IN  IF r < a.min THEN NoMatch
             ELSE IF a.greedy THEN TryCount(atoms, k, s, pos, r, a.min)
                  ELSE TryCount(atoms, k, s, pos, a.min, r)

TryCount(atoms, k, s, pos, c, last) ==
    LET rest == MatchAtoms(atoms, k + 1, s, pos + c)
    IN  IF rest.ok
        THEN [ok |-> TRUE, start |-> 0, ends |-> <<pos + c - 1>> \o rest.ends]
        ELSE IF c = last THEN NoMatch
        ELSE TryCount(atoms, k, s, pos, IF c > last THEN c - 1 ELSE c + 1, last)

RECURSIVE ExecFrom(_, _, _)
ExecFrom(re, s, start) ==
    IF start > Len(s) + 1 THEN NoMatch
    ELSE LET m == MatchAtoms(re.atoms, 1, s, start)
         IN  IF m.ok THEN [m EXCEPT !.start = start]
             ELSE ExecFrom(re, s, start + 1)

\* match[g]: the text of capture group g
Group(s, re, m, g) ==
    LET first == re.groups[g][1]
        last == re.groups[g][2]
        from == IF first = 1 THEN m.start ELSE m.ends[first - 1] + 1
    IN  SubSeq(s, from, m.ends[last])

-----------------------------------------------------------------------------
(* The patterns of receipts.js *)

AmountTail == <<Plus(Digit), Opt({"."}), Star(Digit)>>

\* /label[:\s]*\$?(\d+\.?\d*)/i
LabelPattern(label) ==
    [id |-> label,
     atoms |-> Lit(label, TRUE) \o <<Star({":"} \cup SpaceChar), Opt({"$"})>> \o AmountTail,
     groups |-> <<<<Len(label) + 3, Len(label) + 5>>>>]

totalPatterns == <<LabelPattern("total"), LabelPattern("amount"), LabelPattern("sum")>>

taxPatterns == <<LabelPattern("tax"), LabelPattern("vat"), LabelPattern("gst")>>

DateSep == {"/", "-"}

datePatterns ==
    << \* /(\d{1,2}[\/\-]\d{1,2}[\/\-]\d{2,4})/
       [id |-> "dmy",
        atoms |-> <<Rep(Digit, 1, 2), One(DateSep), Rep(Digit, 1, 2), One(DateSep),
                    Rep(Digit, 2, 4)>>,
        groups |-> <<<<1, 5>>>>],
       \* /(\d{2,4}[\/\-]\d{1,2}[\/\-]\d{1,2})/
       [id |-> "ymd",
        atoms |-> <<Rep(Digit, 2, 4), One(DateSep), Rep(Digit, 1, 2), One(DateSep),
                    Rep(Digit, 1, 2)>>,
        groups |-> <<<<1, 5>>>>],
       \* /(\w{3,9}\s+\d{1,2},?\s+\d{2,4})/i
       [id |-> "month",
        atoms |-> <<Rep(WordChar, 3, 9), Plus(SpaceChar), Rep(Digit, 1, 2), Opt({","}),
                    Plus(SpaceChar), Rep(Digit, 2, 4)>>,
        groups |-> <<<<1, 6>>>>] >>

\* /(.+?)\s+\$?(\d+\.?\d*)/
itemPattern ==
    [id |-> "item",
     atoms |-> <<DotPlusLazy, Plus(SpaceChar), Opt({"$"})>> \o AmountTail,
     groups |-> <<<<1, 1>>, <<4, 6>>>>]

\* /(\d{1,2}[\/\-]\d{1,2}[\/\-]\d{2,4})\s+(.+?)\s+[\$\-]?(\d+\.?\d*)/
transactionPattern ==
    [id |-> "transaction",
     atoms |-> <<Rep(Digit, 1, 2), One(DateSep), Rep(Digit, 1, 2), One(DateSep),
                 Rep(Digit, 2, 4), Plus(SpaceChar), DotPlusLazy, Plus(SpaceChar),
                 Opt({"$", "-"})>> \o AmountTail,
     groups |-> <<<<1, 5>>, <<7, 7>>, <<10, 12>>>>]

-----------------------------------------------------------------------------
(* The documents the model feeds the routes: up to MaxLines raw lines      *)
(* joined by line breaks.                                                  *)

MaxLines == 2

SampleLines ==
    { "Joe's Diner", "", "  Muffin 6.25  ",
      "TOTAL $45.00", "Subtotal: 12.40", "Total 0.00", "Amount: $30.00", "Sum 50",
      "TAX 0.90", "Sales Tax: 1.25", "GST 2.00", "VAT $3.00",
      "Burger 8.50", "Fries 3.00", "ab 5.00", "Water 0.00",
      "Date: 01/05/2024", "13/45/2024", "2024-03-09", "Jan 5, 2024",
      "Date Description Amount",
      "01/06/2024 Coffee Shop 4.50", "01/05/2024 Salary Deposit +2000.00",
      "01/07/2024 Refund + 20.00" }

RECURSIVE join(_)
join(ls) ==
    IF ls = <<>> THEN ""
    ELSE IF Len(ls) = 1 THEN ls[1]
    ELSE ls[1] \o "\n" \o join(Tail(ls))

\* documents whose history words lie on different lines
SpreadDocuments == {"Transaction Date\nAmount: $30.00", "date\namount\ndescription"}

Documents ==
    {join(ls) : ls \in UNION {[1..n -> SampleLines] : n \in 0..MaxLines}} \cup SpreadDocuments

\* The texts the helper functions are called with directly: merchant names,
\* blank texts, statements of up to MaxLines rows and receipts made of a
\* merchant line, up to MaxLines item lines, a TAX line and a TOTAL line.
NameSamples ==
    {"Shell Gas Station", "Unknown Biz", "Target Store", "WALMART Pharmacy", "Uber"}

BlankTexts == {"", "   ", "\n\n", " \n\t\n ", "\n  Joe's Diner \n\n\tMuffin 6.25\n"}

HistoryLines ==
    { "Date Description Amount", "01/06/2024 Coffee Shop 4.50",
      "01/05/2024 Salary Deposit 2000.00", "01/07/2024 Refund + 20.00",
      "13/45/2024 Coffee 4.50", "01/08/2024 Void 0.00",
      "01/09/2024 PAYMENT RECEIVED $75.00" }

HistoryTexts == {join(ls) : ls \in UNION {[1..n -> HistoryLines] : n \in 1..MaxLines}}

MerchantLines == {"Joe's Diner", "Studio 54"}

ItemLines ==
    {"Burger 8.50", "Fries 3.00", "Taxi 12.00", "ab 5.00", "Sum 50.00", "Coke 2 L 3.00"}

TaxLine == "TAX 0.90"

TotalLine == "TOTAL 12.40"

ReceiptLines ==
    {<<m>> \o items \o <<TaxLine, TotalLine>> :
        m \in MerchantLines, items \in UNION {[1..n -> ItemLines] : n \in 1..MaxLines}}

ReceiptTexts == {join(ls) : ls \in ReceiptLines}

AllTexts == NameSamples \cup BlankTexts \cup HistoryTexts \cup ReceiptTexts

\* the texts of a session of calls
SessionTexts ==
    { "Target Store",
      "Joe's Diner\nBurger 8.50\nFries 3.00\nTAX 0.90\nTOTAL 12.40",
      "Date Description Amount\n01/06/2024 Coffee Shop 4.50\n01/05/2024 Salary Deposit 2000.00" }

\* line.match(re).  The matches of the sample lines are tabulated once; any
\* other string is matched directly.
allPatterns == totalPatterns \o taxPatterns \o datePatterns \o <<itemPattern, transactionPattern>>

matchTable ==
    [s \in {trim(l) : l \in SampleLines \cup HistoryLines \cup MerchantLines \cup ItemLines
                                \cup {TaxLine, TotalLine}} |->
        [id \in {allPatterns[k].id : k \in 1..Len(allPatterns)} |->
            ExecFrom(CHOOSE re \in {allPatterns[k] : k \in 1..Len(allPatterns)} : re.id = id,
                     s, 1)]]

match(s, re) == IF s \in DOMAIN matchTable THEN matchTable[s][re.id] ELSE ExecFrom(re, s, 1)

-----------------------------------------------------------------------------
(* Numbers *)

DigitValueOf ==
    [c \in Digit |-> (CHOOSE i \in 1..Len(DigitChars) : CharAt(DigitChars, i) = c) - 1]

DigitValue(c) == DigitValueOf[c]

RECURSIVE DigitsValue(_, _)
DigitsValue(s, acc) ==
    IF s = "" THEN acc ELSE DigitsValue(Tail(s), acc * 10 + DigitValue(Head(s)))

RECURSIVE DigitRun(_, _)
DigitRun(s, i) ==
    IF i <= Len(s) /\ CharAt(s, i) \in Digit THEN DigitRun(s, i + 1) ELSE i - 1

\* parseFloat of a capture of \d+\.?\d* , in hundredths: the integer part,
\* then the first two fraction digits (the inputs carry no more than two)
parseFloat(s) ==
    LET n == DigitRun(s, 1)
        frac == IF n < Len(s) THEN SubSeq(s, n + 2, Len(s)) ELSE ""
        f1 == IF Len(frac) >= 1 THEN DigitValue(CharAt(frac, 1)) ELSE 0
        f2 == IF Len(frac) >= 2 THEN DigitValue(CharAt(frac, 2)) ELSE 0
    IN  DigitsValue(SubSeq(s, 1, n), 0) * 100 + f1 * 10 + f2

-----------------------------------------------------------------------------
(* new Date(dateStr) on a capture of one of the date patterns, as the      *)
(* engine Node runs on parses it: the ISO form yyyy-mm-dd first, otherwise *)
(* the legacy scan (numbers are date components, a '-' after a number is   *)
(* skipped, a month name sets the month, another word is ignored before    *)
(* the first number and illegal after it).                                 *)

MonthNames == <<"jan", "feb", "mar", "apr", "may", "jun",
                "jul", "aug", "sep", "oct", "nov", "dec">>

IsMonth(m) == m >= 1 /\ m <= 12
IsDay(d) == d >= 1 /\ d <= 31

InvalidDate == <<>>

RECURSIVE LetterRun(_, _)
LetterRun(s, i) ==
    IF i <= Len(s) /\ CharAt(s, i) \in Letter THEN LetterRun(s, i + 1) ELSE i - 1

AllDigits(s) == \A i \in 1..Len(s) : CharAt(s, i) \in Digit

\* the named month of a word: its first three letters, case ignored; 0 if none
NamedMonth(w) ==
    LET p == IF Len(w) >= 3 THEN toLowerCase(SubSeq(w, 1, 3)) ELSE ""
    IN  IF \E i \in 1..Len(MonthNames) : MonthNames[i] = p
        THEN CHOOSE i \in 1..Len(MonthNames) : MonthNames[i] = p
        ELSE 0

RECURSIVE LegacyScan(_, _, _)
LegacyScan(s, i, st) ==
    IF i > Len(s) \/ st.bad THEN st
    ELSE LET c == CharAt(s, i) IN
         IF c \in Digit THEN
            LET e == DigitRun(s, i)
                n == DigitsValue(SubSeq(s, i, e), 0)
                next == IF e < Len(s) /\ CharAt(s, e + 1) = "-" THEN e + 2 ELSE e + 1
            IN  IF Len(st.comp) = 3 THEN [st EXCEPT !.bad = TRUE]
                ELSE LegacyScan(s, next, [st EXCEPT !.comp = Append(@, n)])
         ELSE IF c \in Letter THEN
            LET e == LetterRun(s, i)
                mo == NamedMonth(SubSeq(s, i, e))
            IN  IF mo # 0 THEN LegacyScan(s, e + 1, [st EXCEPT !.month = mo])
                ELSE IF st.comp # <<>> THEN [st EXCEPT !.bad = TRUE]
                ELSE LegacyScan(s, e + 1, st)
         ELSE IF c \in {"+", "-"} /\ st.comp # <<>> THEN [st EXCEPT !.bad = TRUE]
         ELSE LegacyScan(s, i + 1, st)

LegacyYear(y) == IF y >= 0 /\ y <= 49 THEN y + 2000
                 ELSE IF y >= 50 /\ y <= 99 THEN y + 1900 ELSE y

IsLeap(y) == y % 4 = 0 /\ (y % 100 # 0 \/ y % 400 = 0)

DaysInMonth(y, m) ==
    IF m = 2 THEN (IF IsLeap(y) THEN 29 ELSE 28)
    ELSE IF m \in {4, 6, 9, 11} THEN 30 ELSE 31

\* a day past the end of its month runs over into the next month
MakeDay(y, m, d) ==
    IF ~(IsMonth(m) /\ IsDay(d)) THEN InvalidDate
    ELSE IF d > DaysInMonth(y, m) THEN <<y, m + 1, d - DaysInMonth(y, m)>>
    ELSE <<y, m, d>>

LegacyDate(s) ==
    LET st == LegacyScan(s, 1, [comp |-> <<>>, month |-> 0, bad |-> FALSE])
        c == st.comp \o SubSeq(<<1, 1, 1>>, 1, 3 - Len(st.comp))
    IN  IF st.bad \/ st.comp = <<>> THEN InvalidDate
        ELSE IF st.month = 0
             THEN IF ~IsDay(c[1]) THEN MakeDay(LegacyYear(c[1]), c[2], c[3])
                  ELSE MakeDay(LegacyYear(c[3]), c[1], c[2])
             ELSE IF ~IsDay(c[1]) THEN MakeDay(LegacyYear(c[1]), st.month, c[2])
                  ELSE MakeDay(LegacyYear(c[2]), st.month, c[1])

IsoShape(s) ==
    /\ Len(s) = 10
    /\ AllDigits(SubSeq(s, 1, 4)) /\ CharAt(s, 5) = "-"
    /\ AllDigits(SubSeq(s, 6, 7)) /\ CharAt(s, 8) = "-"
    /\ AllDigits(SubSeq(s, 9, 10))
    /\ IsMonth(DigitsValue(SubSeq(s, 6, 7), 0))
    /\ IsDay(DigitsValue(SubSeq(s, 9, 10), 0))

\* new Date(dateStr); InvalidDate when isNaN(parsedDate.getTime())
NewDate(s) ==
    IF IsoShape(s)
    THEN MakeDay(DigitsValue(SubSeq(s, 1, 4), 0), DigitsValue(SubSeq(s, 6, 7), 0),
                 DigitsValue(SubSeq(s, 9, 10), 0))
    ELSE LegacyDate(s)

-----------------------------------------------------------------------------
(* extractReceiptData *)

NoDate == <<>>

\* scanTotal without the comparison of line 106: the last match wins
RECURSIVE scanTotalLast(_, _, _, _)
scanTotalLast(lines, i, j, totalAmount) ==
    IF i > Len(lines) THEN totalAmount
    ELSE IF j > Len(totalPatterns) THEN scanTotalLast(lines, i + 1, 1, totalAmount)
    ELSE LET m == match(lines[i], totalPatterns[j])
         IN  IF m.ok
             THEN scanTotalLast(lines, i, j + 1,
                                parseFloat(Group(lines[i], totalPatterns[j], m, 1)))
             ELSE scanTotalLast(lines, i, j + 1, totalAmount)

\* lines 101-111: every line against every total pattern, keeping the largest
RECURSIVE scanTotal(_, _, _, _)
scanTotal(lines, i, j, totalAmount) ==
    IF i > Len(lines) THEN totalAmount
    ELSE IF j > Len(totalPatterns) THEN scanTotal(lines, i + 1, 1, totalAmount)
    ELSE LET m == match(lines[i], totalPatterns[j])
             amount == parseFloat(Group(lines[i], totalPatterns[j], m, 1))
         IN  IF m.ok /\ amount > totalAmount
             THEN scanTotal(lines, i, j + 1, amount)
             ELSE scanTotal(lines, i, j + 1, totalAmount)

\* lines 120-128: the break leaves the pattern loop, not the line loop
RECURSIVE scanTax(_, _, _, _)
scanTax(lines, i, j, taxAmount) ==
    IF i > Len(lines) THEN taxAmount
    ELSE IF j > Len(taxPatterns) THEN scanTax(lines, i + 1, 1, taxAmount)
    ELSE LET m == match(lines[i], taxPatterns[j])
         IN  IF m.ok
             THEN scanTax(lines, i + 1, 1, parseFloat(Group(lines[i], taxPatterns[j], m, 1)))
             ELSE scanTax(lines, i, j + 1, taxAmount)

\* scanDate without the break of line 149: a later line overwrites the date
RECURSIVE scanDateLast(_, _, _)
scanDateLast(lines, i, j) ==
    IF i > Len(lines) THEN NoDate
    ELSE IF j > Len(datePatterns)
         THEN scanDateLast(lines, i + 1, 1)
    ELSE LET m == match(lines[i], datePatterns[j])
             parsedDate == NewDate(Group(lines[i], datePatterns[j], m, 1))
             later == scanDateLast(lines, i + 1, 1)
         IN  IF m.ok /\ parsedDate # InvalidDate
             THEN (IF later # NoDate THEN later ELSE parsedDate)
             ELSE scanDateLast(lines, i, j + 1)

\* lines 137-150: the first capture that parses ends both loops
RECURSIVE scanDate(_, _, _)
scanDate(lines, i, j) ==
    IF i > Len(lines) THEN NoDate
    ELSE IF j > Len(datePatterns) THEN scanDate(lines, i + 1, 1)
    ELSE LET m == match(lines[i], datePatterns[j])
             parsedDate == NewDate(Group(lines[i], datePatterns[j], m, 1))
         IN  IF m.ok /\ parsedDate # InvalidDate
             THEN parsedDate
             ELSE scanDate(lines, i, j + 1)

\* scanItems testing the line for "total" and "tax" without lower-casing it
RECURSIVE scanItemsCaseSensitive(_, _)
scanItemsCaseSensitive(lines, i) ==
    IF i > Len(lines) THEN <<>>
    ELSE LET line == lines[i]
             m == match(line, itemPattern)
             itemName == trim(Group(line, itemPattern, m, 1))
             price == parseFloat(Group(line, itemPattern, m, 2))
         IN  IF /\ m.ok
                /\ ~includes(line, "total")
                /\ ~includes(line, "tax")
                /\ Len(itemName) > 2 /\ price > 0
             THEN <<[name |-> itemName, price |-> price, quantity |-> 1]>>
                  \o scanItemsCaseSensitive(lines, i + 1)
             ELSE scanItemsCaseSensitive(lines, i + 1)

\* scanItems without the price test of line 159
RECURSIVE scanItemsAnyPrice(_, _)
scanItemsAnyPrice(lines, i) ==
    IF i > Len(lines) THEN <<>>
    ELSE LET line == lines[i]
             m == match(line, itemPattern)
             itemName == trim(Group(line, itemPattern, m, 1))
             price == parseFloat(Group(line, itemPattern, m, 2))
         IN  IF /\ m.ok
                /\ ~includes(toLowerCase(line), "total")
                /\ ~includes(toLowerCase(line), "tax")
                /\ Len(itemName) > 2
             THEN <<[name |-> itemName, price |-> price, quantity |-> 1]>>
                  \o scanItemsAnyPrice(lines, i + 1)
             ELSE scanItemsAnyPrice(lines, i + 1)

\* lines 154-167
RECURSIVE scanItems(_, _)
scanItems(lines, i) ==
    IF i > Len(lines) THEN <<>>
    ELSE LET line == lines[i]
             m == match(line, itemPattern)
             itemName == trim(Group(line, itemPattern, m, 1))
             price == parseFloat(Group(line, itemPattern, m, 2))
         IN  IF /\ m.ok
                /\ ~includes(toLowerCase(line), "total")
                /\ ~includes(toLowerCase(line), "tax")
                /\ Len(itemName) > 2 /\ price > 0
             THEN <<[name |-> itemName, price |-> price, quantity |-> 1]>>
                  \o scanItems(lines, i + 1)
             ELSE scanItems(lines, i + 1)

\* lines 78-167: extractedData as it stands before the fallback
extractFields(text) ==
    LET lines == normalizeLines(text)
    IN  [merchantName |-> IF Len(lines) > 0 THEN lines[1] ELSE "",
         totalAmount |-> scanTotal(lines, 1, 1, 0),
         taxAmount |-> scanTax(lines, 1, 1, 0),
         date |-> scanDate(lines, 1, 1),
         items |-> scanItems(lines, 1)]

RECURSIVE sumPrices(_)
sumPrices(items) ==
    IF items = <<>> THEN 0 ELSE Head(items).price + sumPrices(Tail(items))

\* the fallback without the test totalAmount === 0 of line 170
totalFallbackAlways(data) ==
    IF Len(data.items) > 0 /\ sumPrices(data.items) > 0
    THEN [data EXCEPT !.totalAmount = sumPrices(data.items)]
    ELSE data

\* lines 169-173
totalFallback(data) ==
    IF data.totalAmount = 0 /\ Len(data.items) > 0 /\ sumPrices(data.items) > 0
    THEN [data EXCEPT !.totalAmount = sumPrices(data.items)]
    ELSE data

extractReceiptData(text) == totalFallback(extractFields(text))

-----------------------------------------------------------------------------
(* suggestCategory *)

\* Object.entries(categoryKeywords), in declaration order
categoryKeywords ==
    << <<"food", <<"restaurant", "cafe", "pizza", "burger", "food", "kitchen", "diner", "bistro">> >>,
       <<"groceries", <<"grocery", "supermarket", "market", "walmart", "target", "costco", "safeway">> >>,
       <<"gas", <<"gas", "fuel", "shell", "exxon", "bp", "chevron", "mobil">> >>,
       <<"shopping", <<"store", "shop", "mall", "retail", "amazon", "ebay">> >>,
       <<"healthcare", <<"pharmacy", "hospital", "clinic", "medical", "doctor", "cvs", "walgreens">> >>,
       <<"entertainment", <<"cinema", "movie", "theater", "netflix", "spotify", "game">> >>,
       <<"transportation", <<"uber", "lyft", "taxi", "bus", "train", "metro", "parking">> >>,
       <<"utilities", <<"electric", "water", "internet", "phone", "cable", "utility">> >> >>

RECURSIVE firstCategory(_, _)
firstCategory(merchantLower, k) ==
    IF k > Len(categoryKeywords) THEN "other-expense"
    ELSE IF \E n \in 1..Len(categoryKeywords[k][2]) :
                includes(merchantLower, categoryKeywords[k][2][n])
         THEN categoryKeywords[k][1]
         ELSE firstCategory(merchantLower, k + 1)

\* suggestCategory without the toLowerCase of line 191
suggestCategoryCaseSensitive(merchantName) == firstCategory(merchantName, 1)

suggestCategory(merchantName) == firstCategory(toLowerCase(merchantName), 1)

-----------------------------------------------------------------------------
(* parseTransactionHistory *)

\* the polarity test without the '+' of line 420
isIncomeByDescription(description, line) ==
    \/ includes(toLowerCase(description), "deposit")
    \/ includes(toLowerCase(description), "salary")
    \/ includes(toLowerCase(description), "payment received")

\* lines 417-420
isIncome(description, line) ==
    \/ includes(toLowerCase(description), "deposit")
    \/ includes(toLowerCase(description), "salary")
    \/ includes(toLowerCase(description), "payment received")
    \/ includes(line, "+")

\* the category of a row taken from the classifier whatever its polarity
suggestedCategoryAlways(income, description) == suggestCategory(description)

\* line 422
suggestedCategory(income, description) ==
    IF income THEN "other-income" ELSE suggestCategory(description)

\* the test of line 415 without amount > 0
rowAcceptedAnyAmount(parsedDate, amount) == parsedDate # InvalidDate

\* line 415
rowAccepted(parsedDate, amount) == parsedDate # InvalidDate /\ amount > 0

RECURSIVE parseRows(_, _)
parseRows(lines, i) ==
    IF i > Len(lines) THEN <<>>
    ELSE LET line == lines[i]
             m == match(line, transactionPattern)
             dateStr == Group(line, transactionPattern, m, 1)
             description == trim(Group(line, transactionPattern, m, 2))
             amount == parseFloat(Group(line, transactionPattern, m, 3))
             parsedDate == NewDate(dateStr)
             income == isIncome(description, line)
         IN  IF m.ok /\ rowAccepted(parsedDate, amount)
             THEN <<[type |-> IF income THEN "income" ELSE "expense",
                     amount |-> amount,
                     description |-> description,
                     category |-> suggestedCategory(income, description),
                     date |-> parsedDate,
                     paymentMethod |-> "bank-transfer"]>>
                  \o parseRows(lines, i + 1)
             ELSE parseRows(lines, i + 1)

parseTransactionHistory(text) == parseRows(normalizeLines(text), 1)

\* the three words looked for in the whole text instead of in one line
isTransactionHistoryAnywhere(text) ==
    /\ includes(toLowerCase(text), "date")
    /\ includes(toLowerCase(text), "amount")
    /\ \/ includes(toLowerCase(text), "description")
       \/ includes(toLowerCase(text), "transaction")

\* upload-pdf, lines 308-313
isTransactionHistory(text) ==
    LET lines == normalizeLines(text)
    IN  \E i \in 1..Len(lines) :
            /\ includes(toLowerCase(lines[i]), "date")
            /\ includes(toLowerCase(lines[i]), "amount")
            /\ \/ includes(toLowerCase(lines[i]), "description")
               \/ includes(toLowerCase(lines[i]), "transaction")

-----------------------------------------------------------------------------
(* The requests *)

Mimetypes == {"", "image/png", "application/pdf", "text/plain"}

Unused == [kind |-> "unused", text |-> ""]

Decodings ==
    {[kind |-> "throws", text |-> ""], [kind |-> "undefined", text |-> ""]}
    \cup {[kind |-> "text", text |-> d] : d \in Documents}

-----------------------------------------------------------------------------
(* The routes *)

startsWith(s, prefix) == Len(s) >= Len(prefix) /\ SubSeq(s, 1, Len(prefix)) = prefix

\* the fileFilter of uploadImage (lines 49-55) and of uploadPDF (lines 64-70)
fileFilter(r, mimetype) ==
    IF r = "image" THEN startsWith(mimetype, "image/") ELSE mimetype = "application/pdf"

\* extractedData = { merchantName: '', ..., items: [] }
emptyData ==
    [merchantName |-> "", totalAmount |-> 0, taxAmount |-> 0, date |-> NoDate, items |-> <<>>]

\* new Date()
Now == <<2026, 1, 1>>

Response(status, kind, suggested, transactions, data) ==
    [status |-> status, kind |-> kind, suggestedTransaction |-> suggested,
     transactions |-> transactions, extractedData |-> data]

\* a receipt response that dates the transaction now whatever was extracted
receiptResponseDatedNow(r, data) ==
    Response(200, "receipt",
             <<[type |-> "expense",
                amount |-> data.totalAmount,
                description |-> IF data.merchantName # "" THEN data.merchantName
                                ELSE IF r = "image" THEN "Receipt transaction"
                                ELSE "PDF receipt transaction",
                category |-> suggestCategory(data.merchantName),
                date |-> Now]>>,
             <<>>, <<data>>)

\* lines 226-250 and 335-360; a field that is absent is the empty sequence
receiptResponse(r, data) ==
    Response(200, "receipt",
             <<[type |-> "expense",
                amount |-> data.totalAmount,
                description |-> IF data.merchantName # "" THEN data.merchantName
                                ELSE IF r = "image" THEN "Receipt transaction"
                                ELSE "PDF receipt transaction",
                category |-> suggestCategory(data.merchantName),
                date |-> IF data.date # NoDate THEN data.date ELSE Now]>>,
             <<>>, <<data>>)

\* a history branch that falls back to the single-receipt chain when the
\* parser finds no row
historyResponseOrReceipt(text) ==
    IF parseTransactionHistory(text) = <<>>
    THEN receiptResponse("pdf", extractReceiptData(text))
    ELSE Response(200, "history", <<>>, <<parseTransactionHistory(text)>>, <<>>)

\* lines 319-329
historyResponse(text) ==
    Response(200, "history", <<>>, <<parseTransactionHistory(text)>>, <<>>)

\* a catch block that answers 500 whether or not a file was uploaded
catchResponseError(file) == Response(500, "error", <<>>, <<>>, <<>>)

\* the catch blocks, lines 251-284 and 362-396
catchResponse(file) ==
    IF file
    THEN Response(200, "placeholder",
                  <<[type |-> "expense", amount |-> 0,
                     description |-> "Manual entry required",
                     category |-> "other-expense", date |-> Now]>>,
                  <<>>, <<>>)
    ELSE Response(500, "error", <<>>, <<>>, <<>>)

noFileResponse == Response(400, "no-file", <<>>, <<>>, <<>>)

\* the most transactions the collection holds
MaxStored == 2

\* the _id values of the Transaction collection
Ids == 1..MaxStored

\* before any request to the JSON API: no response yet
NoRequest == [route |-> "", id |-> 0, status |-> 0, user |-> ""]

\* the JSON API before its first request: an empty collection
EmptyApi ==
    /\ store = {}
    /\ createdBy = [i \in Ids |-> ""]
    /\ served = NoRequest

\* JavaScript null, for a state or a token that holds a one-element sequence
\* when it is set
null == <<>>

\* ReceiptsPage as first rendered
IdlePage ==
    /\ processing = FALSE
    /\ uploadProgress = 0
    /\ uploadError = null
    /\ uploads = <<>>

\* no call of AuthProvider has finished yet
NoCall == [op |-> "", ok |-> TRUE]

\* AuthProvider as first rendered in a browser without a stored token
FreshProvider ==
    /\ user = null /\ loading = TRUE /\ error = null
    /\ apiToken = null /\ localToken = null
    /\ mounted = FALSE /\ pending = <<>> /\ settled = NoCall

Init ==
    /\ route \in {"image", "pdf"}
    /\ attached \in Mimetypes
    /\ decoded \in (IF fileFilter(route, attached) THEN Decodings ELSE {Unused})
    /\ pc = "multer"
    /\ reqFile = FALSE
    /\ extractedData = emptyData
    /\ responses = <<>>
    /\ inputs = <<>>
    /\ calls = <<>>
    /\ EmptyApi
    /\ IdlePage
    /\ FreshProvider

\* uploadImage.single('receipt') / uploadPDF.single('receipt'): no part leaves
\* req.file unset, an accepted part sets it, a part the fileFilter refuses ends
\* the request in the framework's error response without entering the handler
Multer ==
    /\ pc = "multer"
    /\ IF attached = ""
       THEN reqFile' = FALSE /\ pc' = "handler" /\ UNCHANGED responses
       ELSE IF fileFilter(route, attached)
       THEN reqFile' = TRUE /\ pc' = "handler" /\ UNCHANGED responses
       ELSE /\ responses' = Append(responses, Response(500, "rejected", <<>>, <<>>, <<>>))
            /\ pc' = "done"
            /\ UNCHANGED reqFile
    /\ UNCHANGED <<route, attached, decoded, extractedData, inputs, calls, api, page, provider>>

\* upload-image without the return of line 208: the handler goes on, reading
\* req.file.path throws and the catch block answers a second time
UploadImageNoReturn ==
    /\ pc = "handler" /\ route = "image"
    /\ IF ~reqFile
       THEN /\ responses' = responses \o <<noFileResponse, catchResponse(reqFile)>>
            /\ pc' = "done"
       ELSE IF decoded.kind # "text"
       THEN responses' = Append(responses, catchResponse(reqFile)) /\ pc' = "done"
       ELSE pc' = "extract" /\ UNCHANGED responses
    /\ UNCHANGED <<route, attached, decoded, reqFile, extractedData, inputs, calls, api, page, provider>>

\* POST /upload-image up to the call of extractReceiptData
UploadImage ==
    /\ pc = "handler" /\ route = "image"
    /\ IF ~reqFile
       THEN responses' = Append(responses, noFileResponse) /\ pc' = "done"
       ELSE IF decoded.kind # "text"
       THEN responses' = Append(responses, catchResponse(reqFile)) /\ pc' = "done"
       ELSE pc' = "extract" /\ UNCHANGED responses
    /\ UNCHANGED <<route, attached, decoded, reqFile, extractedData, inputs, calls, api, page, provider>>

\* upload-pdf without the branch of line 315: every text goes to extractReceiptData
UploadPdfNoHistory ==
    /\ pc = "handler" /\ route = "pdf"
    /\ IF ~reqFile
       THEN responses' = Append(responses, noFileResponse) /\ pc' = "done"
       ELSE IF decoded.kind # "text"
       THEN responses' = Append(responses, catchResponse(reqFile)) /\ pc' = "done"
       ELSE pc' = "extract" /\ UNCHANGED responses
    /\ UNCHANGED <<route, attached, decoded, reqFile, extractedData, inputs, calls, api, page, provider>>

\* POST /upload-pdf up to the call of extractReceiptData
UploadPdf ==
    /\ pc = "handler" /\ route = "pdf"
    /\ IF ~reqFile
       THEN responses' = Append(responses, noFileResponse) /\ pc' = "done"
       ELSE IF decoded.kind # "text"
       THEN responses' = Append(responses, catchResponse(reqFile)) /\ pc' = "done"
       ELSE IF isTransactionHistory(decoded.text)
       THEN responses' = Append(responses, historyResponse(decoded.text)) /\ pc' = "done"
       ELSE pc' = "extract" /\ UNCHANGED responses
    /\ UNCHANGED <<route, attached, decoded, reqFile, extractedData, inputs, calls, api, page, provider>>

\* extractReceiptData, lines 78-167
ExtractFields ==
    /\ pc = "extract"
    /\ extractedData' = extractFields(decoded.text)
    /\ pc' = "fallback"
    /\ UNCHANGED <<route, attached, decoded, reqFile, responses, inputs, calls, api, page, provider>>

\* extractReceiptData, lines 169-175, and the handler's response
Respond ==
    /\ pc = "fallback"
    /\ extractedData' = totalFallback(extractedData)
    /\ responses' = Append(responses, receiptResponse(route, totalFallback(extractedData)))
    /\ pc' = "done"
    /\ UNCHANGED <<route, attached, decoded, reqFile, inputs, calls, api, page, provider>>

Next == Multer \/ UploadImage \/ UploadPdf \/ ExtractFields \/ Respond

Spec == Init /\ [][Next]_vars

-----------------------------------------------------------------------------
(* Direct calls of the helper functions.  The functions are synchronous, so  *)
(* a call is one step; a call allocates its result (extractedData, line 80;  *)
(* transactions, line 402) anew.                                             *)

MaxCalls == 3

request == <<route, attached, decoded, pc, reqFile, extractedData, responses>>

Call(fn, input, result) == [fn |-> fn, input |-> input, result |-> result]

\* the calls of the log made to fn
CallsOf(log, fn) == {k \in 1..Len(log) : log[k].fn = fn}

\* a transactions array that lives across calls: the array the previous call
\* of parseTransactionHistory returned
sharedTransactions(log) ==
    IF CallsOf(log, "parseTransactionHistory") = {} THEN <<>>
    ELSE log[CHOOSE k \in CallsOf(log, "parseTransactionHistory") :
                \A j \in CallsOf(log, "parseTransactionHistory") : j <= k].result

\* const transactions = [] (line 402): the array a call pushes its rows into
newTransactions(log) == <<>>

\* no request is under way; a helper function is called with one text
InitCalls ==
    /\ route = "image" /\ attached = "" /\ decoded = Unused /\ pc = "done"
    /\ reqFile = FALSE /\ extractedData = emptyData /\ responses = <<>>
    /\ inputs \in {<<t>> : t \in AllTexts}
    /\ calls = <<>>
    /\ EmptyApi
    /\ IdlePage
    /\ FreshProvider

\* no request is under way; the helper functions are called up to MaxCalls
\* times
InitSession ==
    /\ route = "image" /\ attached = "" /\ decoded = Unused /\ pc = "done"
    /\ reqFile = FALSE /\ extractedData = emptyData /\ responses = <<>>
    /\ inputs \in UNION {[1..n -> SessionTexts] : n \in 1..MaxCalls}
    /\ calls = <<>>
    /\ EmptyApi
    /\ IdlePage
    /\ FreshProvider

CallExtractReceiptData ==
    /\ inputs # <<>>
    /\ calls' = Append(calls, Call("extractReceiptData", Head(inputs),
                                   extractReceiptData(Head(inputs))))
    /\ inputs' = Tail(inputs)
    /\ UNCHANGED <<request, api, page, provider>>

CallSuggestCategory ==
    /\ inputs # <<>>
    /\ calls' = Append(calls, Call("suggestCategory", Head(inputs),
                                   suggestCategory(Head(inputs))))
    /\ inputs' = Tail(inputs)
    /\ UNCHANGED <<request, api, page, provider>>

CallParseTransactionHistory ==
    /\ inputs # <<>>
    /\ calls' = Append(calls, Call("parseTransactionHistory", Head(inputs),
                                   newTransactions(calls) \o parseTransactionHistory(Head(inputs))))
    /\ inputs' = Tail(inputs)
    /\ UNCHANGED <<request, api, page, provider>>

NextCalls == CallExtractReceiptData \/ CallSuggestCategory \/ CallParseTransactionHistory

SpecCalls == InitCalls /\ [][NextCalls]_vars

SpecSession == InitSession /\ [][NextCalls]_vars

-----------------------------------------------------------------------------
(* The JSON API: protect, /api/transactions, /api/receipts/create-transaction,
   /api/receipts/bulk-create-transactions and /api/analytics/summary *)

\* a field of a request body that is absent is the empty sequence; a field
\* that is present is the one-element sequence of its value
Absent == <<>>

Has(field) == field # <<>>

Val(field) == field[1]

\* JavaScript falsiness of a text field and of a numeric field
FalsyText(field) == ~Has(field) \/ Val(field) = ""

FalsyNumber(field) == ~Has(field) \/ Val(field) = 0

\* the User collection: u3 has been deactivated
Users == [u \in {"u1", "u2", "u3"} |-> [isActive |-> u # "u3"]]

\* the tokens that jwt.verify accepts, with the id in their payload; u9 is the
\* id of a user that no longer exists
Signed == [t \in {"tok1", "tok2", "tok3", "tok9"} |->
             IF t = "tok1" THEN "u1" ELSE IF t = "tok2" THEN "u2"
             ELSE IF t = "tok3" THEN "u3" ELSE "u9"]

\* the Authorization headers of the requests; "" is a request without one
Headers ==
    {"", "Bearer", "Basic tok1", "Bearer expired", "Bearer tok1", "Bearer tok2",
     "Bearer tok3", "Bearer tok9"}

\* header.split(' ')[1]: the text between the first and the second space,
\* Absent when the header has no space
RECURSIVE upToSpace(_)
upToSpace(s) ==
    IF s = "" \/ CharAt(s, 1) = " " THEN ""
    ELSE CharAt(s, 1) \o upToSpace(SubSeq(s, 2, Len(s)))

RECURSIVE secondWord(_)
secondWord(s) ==
    IF s = "" THEN Absent
    ELSE IF CharAt(s, 1) = " " THEN <<upToSpace(SubSeq(s, 2, Len(s)))>>
    ELSE secondWord(SubSeq(s, 2, Len(s)))

\* protect that lets a deactivated user through
protectAnyUser(authorization) ==
    LET token == IF authorization # "" /\ startsWith(authorization, "Bearer")
                 THEN secondWord(authorization) ELSE Absent
    IN IF FalsyText(token) THEN [status |-> 401, user |-> ""]
       ELSE IF Val(token) \notin DOMAIN Signed THEN [status |-> 401, user |-> ""]
       ELSE IF Signed[Val(token)] \notin DOMAIN Users THEN [status |-> 401, user |-> ""]
       ELSE [status |-> 0, user |-> Signed[Val(token)]]

\* protect: status 0 stands for next(), with req.user.id in user
protect(authorization) ==
    LET token == IF authorization # "" /\ startsWith(authorization, "Bearer")
                 THEN secondWord(authorization) ELSE Absent
    IN IF FalsyText(token) THEN [status |-> 401, user |-> ""]
       ELSE IF Val(token) \notin DOMAIN Signed THEN [status |-> 401, user |-> ""]
       ELSE IF Signed[Val(token)] \notin DOMAIN Users THEN [status |-> 401, user |-> ""]
       ELSE IF ~Users[Signed[Val(token)]].isActive THEN [status |-> 401, user |-> ""]
       ELSE [status |-> 0, user |-> Signed[Val(token)]]

\* Transaction.getCategoriesByType
getCategoriesByType(type) ==
    IF type = "income"
    THEN {"salary", "freelance", "business", "investment", "rental", "gift", "others"}
    ELSE IF type = "expense"
    THEN {"food-dining", "transportation", "shopping", "entertainment", "bills-utilities",
          "healthcare", "education", "travel", "groceries", "gas", "others"}
    ELSE {}

\* a category validator that accepts every category
validateAnyCategory(value, type) == TRUE

\* the validator of the category path, run on a document of the given type
validate(value, type) == value \in getCategoriesByType(type)

\* the validators of the schema, run on a document before it is saved
documentValid(doc) ==
    /\ Has(doc.user)
    /\ Has(doc.type) /\ Val(doc.type) \in {"income", "expense"}
    /\ Has(doc.amount) /\ Val(doc.amount) >= 1
    /\ Has(doc.description) /\ trim(Val(doc.description)) # ""
    /\ Has(doc.category) /\ Val(doc.category) # ""
    /\ validate(Val(doc.category), Val(doc.type))

\* a request body with its six fields
Body(type, category, amount, date, description, uid) ==
    [type |-> type, category |-> category, amount |-> amount, date |-> date,
     description |-> description, user |-> uid]

ExpenseBody ==
    Body(<<"expense">>, <<"groceries">>, <<500>>, <<"2026-01-01">>, <<"Lunch">>, Absent)

IncomeBody ==
    Body(<<"income">>, <<"salary">>, <<500>>, <<"2026-01-01">>, <<"Pay">>, Absent)

\* the bodies sent to the routes that create one transaction: the two valid
\* ones, the suggestions of the receipt routes (sentinels, "food", the
\* manual-entry placeholder), a body naming another user, a category of the
\* other type, and bodies with one field missing or empty
CreateBodies ==
    {ExpenseBody, IncomeBody,
     [ExpenseBody EXCEPT !.category = <<"other-expense">>],
     [IncomeBody EXCEPT !.category = <<"other-income">>],
     [ExpenseBody EXCEPT !.category = <<"food">>],
     [ExpenseBody EXCEPT !.category = <<"other-expense">>, !.amount = <<0>>,
                         !.description = <<"Manual entry required">>],
     [ExpenseBody EXCEPT !.user = <<"u2">>],
     [ExpenseBody EXCEPT !.category = <<"salary">>],
     [ExpenseBody EXCEPT !.type = <<"transfer">>],
     [ExpenseBody EXCEPT !.amount = Absent],
     [ExpenseBody EXCEPT !.category = Absent],
     [ExpenseBody EXCEPT !.date = Absent],
     [ExpenseBody EXCEPT !.description = Absent],
     [ExpenseBody EXCEPT !.type = Absent],
     [ExpenseBody EXCEPT !.description = <<"">>],
     [ExpenseBody EXCEPT !.description = <<"  ">>]}

\* the arrays sent to bulk-create-transactions
BulkBodies ==
    {<<>>, <<ExpenseBody>>, <<IncomeBody, ExpenseBody>>,
     <<ExpenseBody, [IncomeBody EXCEPT !.category = <<"other-income">>]>>,
     <<[ExpenseBody EXCEPT !.category = <<"other-expense">>]>>,
     <<[IncomeBody EXCEPT !.user = <<"u1">>]>>,
     <<[ExpenseBody EXCEPT !.amount = <<0>>]>>}

\* a body without any field
EmptyBody == Body(Absent, Absent, Absent, Absent, Absent, Absent)

\* the bodies sent to PUT /api/transactions/:id
UpdateBodies ==
    {EmptyBody,
     [EmptyBody EXCEPT !.type = <<"income">>],
     [EmptyBody EXCEPT !.category = <<"salary">>],
     [EmptyBody EXCEPT !.type = <<"income">>, !.category = <<"salary">>],
     [EmptyBody EXCEPT !.type = <<"income">>, !.category = <<"groceries">>],
     [EmptyBody EXCEPT !.amount = <<0>>],
     [EmptyBody EXCEPT !.user = <<"u2">>]}

\* the ids named in the path of a request: those of the collection and one
\* that is never stored
PathIds == 1..(MaxStored + 1)

\* the outcome of a handler: the response and the collection it leaves
Outcome(status, st, cb) ==
    [status |-> status, store |-> st, createdBy |-> cb, income |-> 0, expenses |-> 0]

\* the document saved for a body: { ...req.body, user: req.user.id }
docOf(body, uid) == [body EXCEPT !.user = <<uid>>]

\* the ids not in use
FreeIds(st) == Ids \ {t.id : t \in st}

\* the least of a non-empty set of numbers
Least(S) == CHOOSE x \in S : \A y \in S : x <= y

\* saving validated documents, each under a fresh id; the collection holds at
\* most MaxStored documents
RECURSIVE insert(_, _, _, _)
insert(st, cb, docs, creator) ==
    IF docs = <<>> \/ FreeIds(st) = {} THEN [store |-> st, createdBy |-> cb]
    ELSE LET id == Least(FreeIds(st))
             doc == Head(docs)
         IN insert(st \cup {[id |-> id, user |-> Val(doc.user), type |-> Val(doc.type),
                             category |-> Val(doc.category), amount |-> Val(doc.amount)]},
                   [cb EXCEPT ![id] = creator], Tail(docs), creator)

\* Transaction.create and Transaction.insertMany: every document is validated
\* first, and none is saved when one fails; status 0 stands for success
create(st, cb, docs, creator) ==
    IF \A i \in 1..Len(docs) : documentValid(docs[i])
    THEN LET saved == insert(st, cb, docs, creator)
         IN Outcome(0, saved.store, saved.createdBy)
    ELSE Outcome(500, st, cb)

\* the express-validator rules shared by the creating routes
createRules(body) ==
    /\ Has(body.type) /\ Val(body.type) \in {"income", "expense"}
    /\ Has(body.amount) /\ Val(body.amount) >= 1
    /\ Has(body.description) /\ trim(Val(body.description)) # ""
    /\ ~FalsyText(body.category)

\* POST /api/receipts/create-transaction without its check of the five fields
createTransactionUnchecked(st, cb, uid, body) ==
    LET made == create(st, cb, <<docOf(body, uid)>>, uid)
    IN IF made.status = 0 THEN [made EXCEPT !.status = 200] ELSE made

\* POST /api/receipts/create-transaction
createTransaction(st, cb, uid, body) ==
    IF \/ FalsyNumber(body.amount) \/ FalsyText(body.category) \/ FalsyText(body.date)
       \/ FalsyText(body.description) \/ FalsyText(body.type)
    THEN Outcome(400, st, cb)
    ELSE LET made == create(st, cb, <<docOf(body, uid)>>, uid)
         IN IF made.status = 0 THEN [made EXCEPT !.status = 200] ELSE made

\* POST /api/receipts/bulk-create-transactions
bulkCreateTransactions(st, cb, uid, bodies) ==
    IF Len(bodies) < 1 \/ \E i \in 1..Len(bodies) : ~createRules(bodies[i])
    THEN Outcome(400, st, cb)
    ELSE LET made == create(st, cb, [i \in 1..Len(bodies) |-> docOf(bodies[i], uid)], uid)
         IN IF made.status = 0 THEN [made EXCEPT !.status = 201] ELSE made

\* POST /api/transactions
postTransaction(st, cb, uid, body) ==
    IF ~createRules(body) THEN Outcome(400, st, cb)
    ELSE IF Val(body.category) \notin getCategoriesByType(Val(body.type))
    THEN Outcome(400, st, cb)
    ELSE LET made == create(st, cb, <<docOf(body, uid)>>, uid)
         IN IF made.status = 0 THEN [made EXCEPT !.status = 201] ELSE made

\* a lookup by id alone
findById(st, id, uid) == {t \in st : t.id = id}

\* Transaction.findOne({ _id: id, user: user }): the set of the documents found
findOne(st, id, uid) == {t \in st : t.id = id /\ t.user = uid}

\* the express-validator rules of PUT, every field optional
updateRules(body) ==
    /\ Has(body.type) => Val(body.type) \in {"income", "expense"}
    /\ Has(body.amount) => Val(body.amount) >= 1
    /\ Has(body.description) => trim(Val(body.description)) # ""
    /\ Has(body.category) => Val(body.category) # ""

\* the update validators of findByIdAndUpdate with runValidators: only the
\* paths of the update are validated, and the category validator, run without
\* a document, throws on this.constructor.getCategoriesByType and so fails
updateValid(body) ==
    /\ Has(body.type) => Val(body.type) \in {"income", "expense"}
    /\ Has(body.amount) => Val(body.amount) >= 1
    /\ Has(body.description) => trim(Val(body.description)) # ""
    /\ ~Has(body.category)

\* the document after $set of the fields of the body
updated(t, body) ==
    [id |-> t.id,
     user |-> IF Has(body.user) THEN Val(body.user) ELSE t.user,
     type |-> IF Has(body.type) THEN Val(body.type) ELSE t.type,
     category |-> IF Has(body.category) THEN Val(body.category) ELSE t.category,
     amount |-> IF Has(body.amount) THEN Val(body.amount) ELSE t.amount]

\* PUT /api/transactions/:id
putTransaction(st, cb, uid, id, body) ==
    IF ~updateRules(body) THEN Outcome(400, st, cb)
    ELSE IF findOne(st, id, uid) = {} THEN Outcome(404, st, cb)
    ELSE IF /\ ~FalsyText(body.type) /\ ~FalsyText(body.category)
            /\ Val(body.category) \notin getCategoriesByType(Val(body.type))
    THEN Outcome(400, st, cb)
    ELSE IF ~updateValid(body) THEN Outcome(500, st, cb)
    ELSE Outcome(200, {IF t.id = id THEN updated(t, body) ELSE t : t \in st}, cb)

\* DELETE /api/transactions/:id
deleteTransaction(st, cb, uid, id) ==
    IF findOne(st, id, uid) = {} THEN Outcome(404, st, cb)
    ELSE Outcome(200, {t \in st : t.id # id}, [cb EXCEPT ![id] = ""])

\* GET /api/transactions/:id
getTransaction(st, cb, uid, id) ==
    IF findOne(st, id, uid) = {} THEN Outcome(404, st, cb) ELSE Outcome(200, st, cb)

\* $group by type with $sum of amount, read for one type
RECURSIVE total(_, _)
total(docs, type) ==
    IF docs = {} THEN 0
    ELSE LET t == CHOOSE x \in docs : TRUE
         IN (IF t.type = type THEN t.amount ELSE 0) + total(docs \ {t}, type)

\* GET /api/transactions without filters: the summary of the user's documents
getTransactions(st, cb, uid) ==
    LET found == {t \in st : t.user = uid}
    IN [Outcome(200, st, cb) EXCEPT !.income = total(found, "income"),
                                     !.expenses = total(found, "expense")]

\* GET /api/analytics/summary?period=all: the pipeline matches on
\* req.user._id, which protect never sets; an undefined value in the filter
\* is sent as null and matches no document, or is dropped and matches all,
\* as the driver's ignoreUndefined option has it
getSummary(st, cb, uid, ignoreUndefined) ==
    LET found == IF ignoreUndefined THEN st ELSE {}
    IN [Outcome(200, st, cb) EXCEPT !.income = total(found, "income"),
                                     !.expenses = total(found, "expense")]

\* the response recorded for a request
Served(r, id, uid, out) == [route |-> r, id |-> id, status |-> out.status, user |-> uid]

\* a request stopped by protect: the handler does not run, and req.params is
\* never read
Refused(r, id) ==
    /\ served' = [route |-> r, id |-> id, status |-> 401, user |-> ""]
    /\ UNCHANGED <<store, createdBy>>

\* a request whose handler ran
Handled(r, id, uid, out) ==
    /\ served' = Served(r, id, uid, out)
    /\ store' = out.store
    /\ createdBy' = out.createdBy

\* no upload and no direct call is under way
InitApi ==
    /\ route = "image" /\ attached = "" /\ decoded = Unused /\ pc = "done"
    /\ reqFile = FALSE /\ extractedData = emptyData /\ responses = <<>>
    /\ inputs = <<>> /\ calls = <<>>
    /\ EmptyApi
    /\ IdlePage
    /\ FreshProvider

\* the documents a creating request carries fit the collection
Fits(n) == Cardinality(store) + n <= MaxStored

\* protect, run once on each header
authorized == [authorization \in Headers |-> protect(authorization)]

\* the headers protect stops, and those it lets through
Stopped == {authorization \in Headers : authorized[authorization].status # 0}

Passed == Headers \ Stopped

PostTransaction ==
    /\ \/ Stopped # {} /\ Refused("POST /api/transactions", 0)
       \/ \E authorization \in Passed, body \in CreateBodies :
              LET uid == authorized[authorization].user
              IN Fits(1) /\
                 Handled("POST /api/transactions", 0, uid,
                         postTransaction(store, createdBy, uid, body))
    /\ UNCHANGED <<request, inputs, calls, page, provider>>

PutTransaction ==
    /\ \/ Stopped # {} /\ Refused("PUT /api/transactions/:id", 0)
       \/ \E authorization \in Passed, id \in PathIds, body \in UpdateBodies :
              LET uid == authorized[authorization].user
              IN Handled("PUT /api/transactions/:id", id, uid,
                         putTransaction(store, createdBy, uid, id, body))
    /\ UNCHANGED <<request, inputs, calls, page, provider>>

DeleteTransaction ==
    /\ \/ Stopped # {} /\ Refused("DELETE /api/transactions/:id", 0)
       \/ \E authorization \in Passed, id \in PathIds :
              LET uid == authorized[authorization].user
              IN Handled("DELETE /api/transactions/:id", id, uid,
                         deleteTransaction(store, createdBy, uid, id))
    /\ UNCHANGED <<request, inputs, calls, page, provider>>

GetTransaction ==
    /\ \/ Stopped # {} /\ Refused("GET /api/transactions/:id", 0)
       \/ \E authorization \in Passed, id \in PathIds :
              LET uid == authorized[authorization].user
              IN Handled("GET /api/transactions/:id", id, uid,
                         getTransaction(store, createdBy, uid, id))
    /\ UNCHANGED <<request, inputs, calls, page, provider>>

GetTransactions ==
    /\ \/ Stopped # {} /\ Refused("GET /api/transactions", 0)
       \/ \E authorization \in Passed :
              LET uid == authorized[authorization].user
              IN Handled("GET /api/transactions", 0, uid,
                         getTransactions(store, createdBy, uid))
    /\ UNCHANGED <<request, inputs, calls, page, provider>>

GetSummary ==
    /\ \/ Stopped # {} /\ Refused("GET /api/analytics/summary", 0)
       \/ \E authorization \in Passed, ignoreUndefined \in BOOLEAN :
              LET uid == authorized[authorization].user
              IN Handled("GET /api/analytics/summary", 0, uid,
                         getSummary(store, createdBy, uid, ignoreUndefined))
    /\ UNCHANGED <<request, inputs, calls, page, provider>>

CreateTransaction ==
    /\ \/ Stopped # {} /\ Refused("POST /api/receipts/create-transaction", 0)
       \/ \E authorization \in Passed, body \in CreateBodies :
              LET uid == authorized[authorization].user
              IN Fits(1) /\
                 Handled("POST /api/receipts/create-transaction", 0, uid,
                         createTransaction(store, createdBy, uid, body))
    /\ UNCHANGED <<request, inputs, calls, page, provider>>

BulkCreateTransactions ==
    /\ \/ Stopped # {} /\ Refused("POST /api/receipts/bulk-create-transactions", 0)
       \/ \E authorization \in Passed, bodies \in BulkBodies :
              LET uid == authorized[authorization].user
              IN /\ Fits(Len(bodies))
                 /\ Handled("POST /api/receipts/bulk-create-transactions", 0, uid,
                            bulkCreateTransactions(store, createdBy, uid, bodies))
    /\ UNCHANGED <<request, inputs, calls, page, provider>>

NextApi ==
    \/ PostTransaction \/ PutTransaction \/ DeleteTransaction \/ GetTransaction
    \/ GetTransactions \/ GetSummary \/ CreateTransaction \/ BulkCreateTransactions

SpecApi == InitApi /\ [][NextApi]_vars

\* the requests to /api/transactions that write
NextTransactions == PostTransaction \/ PutTransaction \/ DeleteTransaction

SpecTransactions == InitApi /\ [][NextTransactions]_vars

-----------------------------------------------------------------------------
(* ReceiptsPage.handleFileUpload *)

\* the most calls of handleFileUpload in one behaviour
MaxUploads == 2

\* the types of the files handed to handleFileUpload
FileTypes == {"image/png", "application/pdf", "text/plain"}

\* the starting value of uploadProgress
NoProgress == 0

\* the value at which the interval's callback clears the interval
ProgressCap == 90

\* the step of one tick of the interval
ProgressStep == 10

\* the value set when the upload has been answered
ProgressDone == 100

\* no upload, no direct call and no API request is under way
InitPage ==
    /\ route = "image" /\ attached = "" /\ decoded = Unused /\ pc = "done"
    /\ reqFile = FALSE /\ extractedData = emptyData /\ responses = <<>>
    /\ inputs = <<>> /\ calls = <<>>
    /\ EmptyApi
    /\ IdlePage
    /\ FreshProvider

\* handleFileUpload up to its await, for a non-empty file list (an empty one
\* returns at once): the states are reset and the type is validated; a
\* refused type throws before the interval is started, so the catch and the
\* finally blocks run in the same turn; an accepted type starts the interval
\* and sends the upload
StartUpload ==
    /\ Len(uploads) < MaxUploads
    /\ \E type \in FileTypes :
          IF startsWith(type, "image/") \/ type = "application/pdf"
          THEN /\ processing' = TRUE
               /\ uploadError' = null
               /\ uploadProgress' = NoProgress
               /\ uploads' = Append(uploads, [phase |-> "awaiting", interval |-> TRUE,
                                              timer |-> FALSE])
          ELSE /\ processing' = FALSE
               /\ uploadError' = <<"Please upload an image (JPG, PNG, etc.) or PDF file">>
               /\ uploadProgress' = NoProgress
               /\ uploads' = Append(uploads, [phase |-> "ended", interval |-> FALSE,
                                              timer |-> TRUE])
    /\ UNCHANGED <<request, inputs, calls, api, provider>>

\* one tick of the interval of call i: the updater adds a step, or at the cap
\* clears the interval and keeps the cap
Tick ==
    /\ \E i \in 1..Len(uploads) :
          /\ uploads[i].interval
          /\ IF uploadProgress >= ProgressCap
             THEN /\ uploadProgress' = ProgressCap
                  /\ uploads' = [uploads EXCEPT ![i].interval = FALSE]
             ELSE /\ uploadProgress' = uploadProgress + ProgressStep
                  /\ UNCHANGED uploads
    /\ UNCHANGED <<processing, uploadError>>
    /\ UNCHANGED <<request, inputs, calls, api, provider>>

\* the upload of call i is answered: the interval is cleared, the progress is
\* set to its end value, and the finally block ends processing and starts
\* the reset timer
UploadResolves ==
    /\ \E i \in 1..Len(uploads) :
          /\ uploads[i].phase = "awaiting"
          /\ uploads' = [uploads EXCEPT ![i] = [phase |-> "ended", interval |-> FALSE,
                                                timer |-> TRUE]]
    /\ uploadProgress' = ProgressDone
    /\ processing' = FALSE
    /\ UNCHANGED uploadError
    /\ UNCHANGED <<request, inputs, calls, api, provider>>

\* the upload of call i fails: control leaves the try block at the await, the
\* catch block sets the error, and the finally block ends processing and
\* starts the reset timer
UploadRejects ==
    /\ \E i \in 1..Len(uploads) :
          /\ uploads[i].phase = "awaiting"
          /\ uploads' = [uploads EXCEPT ![i].phase = "ended", ![i].timer = TRUE]
    /\ uploadError' = <<"Something went wrong">>
    /\ processing' = FALSE
    /\ UNCHANGED uploadProgress
    /\ UNCHANGED <<request, inputs, calls, api, provider>>

\* the reset timer of call i fires
ResetProgress ==
    /\ \E i \in 1..Len(uploads) :
          /\ uploads[i].timer
          /\ uploads' = [uploads EXCEPT ![i].timer = FALSE]
    /\ uploadProgress' = NoProgress
    /\ UNCHANGED <<processing, uploadError>>
    /\ UNCHANGED <<request, inputs, calls, api, provider>>

NextPage == StartUpload \/ Tick \/ UploadResolves \/ UploadRejects \/ ResetProgress

SpecPage == InitPage /\ [][NextPage]_vars

-----------------------------------------------------------------------------
(* AuthProvider and ApiClient.setToken *)

\* the most calls of AuthProvider awaiting the server at one time
MaxPending == 2

\* the tokens found in localStorage when the page loads
StoredTokens == {null, <<"tok1">>, <<"expired">>}

\* the answers of /auth/login and /auth/register: a token and its user
SignIns == {[token |-> <<"tok1">>, user |-> <<"u1">>], [token |-> <<"tok2">>, user |-> <<"u2">>]}

\* the users sent as response.data by /auth/me and /auth/profile
Profiles == {<<"u1">>, <<"u2">>}

\* error.message of a failed request
Messages == {<<"Something went wrong">>, <<"Invalid credentials">>}

\* ApiClient.setToken: the token of the client and the entry of localStorage
setToken(token) == [apiToken |-> token, localToken |-> token]

\* the value of the context
isAuthenticated == user # null

\* the page loads: the ApiClient is constructed with the stored token and
\* AuthProvider is rendered for the first time
InitProvider ==
    /\ route = "image" /\ attached = "" /\ decoded = Unused /\ pc = "done"
    /\ reqFile = FALSE /\ extractedData = emptyData /\ responses = <<>>
    /\ inputs = <<>> /\ calls = <<>>
    /\ EmptyApi
    /\ IdlePage
    /\ user = null /\ loading = TRUE /\ error = null
    /\ localToken \in StoredTokens
    /\ apiToken = localToken
    /\ mounted = FALSE /\ pending = <<>> /\ settled = NoCall

\* the sequence without its i-th element
Without(seq, i) == SubSeq(seq, 1, i - 1) \o SubSeq(seq, i + 1, Len(seq))

\* the outcome recorded for a call that finished
Settled(op, ok) == [op |-> op, ok |-> ok]

\* the effect run on mount: checkAuthStatus up to its await, or to its end
\* when no token is stored
CheckAuthStatus ==
    /\ ~mounted
    /\ mounted' = TRUE
    /\ IF localToken # null
       THEN /\ apiToken' = setToken(localToken).apiToken
            /\ localToken' = setToken(localToken).localToken
            /\ pending' = Append(pending, "getProfile")
            /\ UNCHANGED <<loading, settled>>
       ELSE /\ loading' = FALSE
            /\ settled' = Settled("checkAuthStatus", TRUE)
            /\ UNCHANGED <<apiToken, localToken, pending>>
    /\ UNCHANGED <<user, error>>
    /\ UNCHANGED <<request, inputs, calls, api, page>>

\* checkAuthStatus after getProfile answered
GetProfileResolves ==
    /\ \E i \in 1..Len(pending), data \in Profiles :
          /\ pending[i] = "getProfile"
          /\ pending' = Without(pending, i)
          /\ user' = data
    /\ loading' = FALSE
    /\ settled' = Settled("checkAuthStatus", TRUE)
    /\ UNCHANGED <<error, apiToken, localToken, mounted>>
    /\ UNCHANGED <<request, inputs, calls, api, page>>

\* checkAuthStatus after getProfile failed
GetProfileRejects ==
    /\ \E i \in 1..Len(pending) :
          /\ pending[i] = "getProfile"
          /\ pending' = Without(pending, i)
    /\ apiToken' = setToken(null).apiToken
    /\ localToken' = setToken(null).localToken
    /\ loading' = FALSE
    /\ settled' = Settled("checkAuthStatus", FALSE)
    /\ UNCHANGED <<user, error, mounted>>
    /\ UNCHANGED <<request, inputs, calls, api, page>>

\* login up to its await
Login ==
    /\ mounted
    /\ Len(pending) < MaxPending
    /\ error' = null
    /\ loading' = TRUE
    /\ pending' = Append(pending, "login")
    /\ UNCHANGED <<user, apiToken, localToken, mounted, settled>>
    /\ UNCHANGED <<request, inputs, calls, api, page>>

\* register up to its await
Register ==
    /\ mounted
    /\ Len(pending) < MaxPending
    /\ error' = null
    /\ loading' = TRUE
    /\ pending' = Append(pending, "register")
    /\ UNCHANGED <<user, apiToken, localToken, mounted, settled>>
    /\ UNCHANGED <<request, inputs, calls, api, page>>

\* login or register after the server answered with a token and a user
SignInResolves ==
    /\ \E i \in 1..Len(pending), response \in SignIns :
          /\ pending[i] \in {"login", "register"}
          /\ pending' = Without(pending, i)
          /\ apiToken' = setToken(response.token).apiToken
          /\ localToken' = setToken(response.token).localToken
          /\ user' = response.user
          /\ settled' = Settled(pending[i], TRUE)
    /\ loading' = FALSE
    /\ UNCHANGED <<error, mounted>>
    /\ UNCHANGED <<request, inputs, calls, api, page>>

\* a failed login or register that also forgets the user
SignInRejectsSignsOut ==
    /\ \E i \in 1..Len(pending), message \in Messages :
          /\ pending[i] \in {"login", "register"}
          /\ pending' = Without(pending, i)
          /\ error' = message
          /\ settled' = Settled(pending[i], FALSE)
    /\ loading' = FALSE
    /\ user' = null
    /\ UNCHANGED <<apiToken, localToken, mounted>>
    /\ UNCHANGED <<request, inputs, calls, api, page>>

\* login or register after the request failed: the catch block sets the
\* error and rethrows, the finally block ends loading
SignInRejects ==
    /\ \E i \in 1..Len(pending), message \in Messages :
          /\ pending[i] \in {"login", "register"}
          /\ pending' = Without(pending, i)
          /\ error' = message
          /\ settled' = Settled(pending[i], FALSE)
    /\ loading' = FALSE
    /\ UNCHANGED <<user, apiToken, localToken, mounted>>
    /\ UNCHANGED <<request, inputs, calls, api, page>>

\* logout up to its await
Logout ==
    /\ mounted
    /\ Len(pending) < MaxPending
    /\ pending' = Append(pending, "logout")
    /\ UNCHANGED <<user, loading, error, apiToken, localToken, mounted, settled>>
    /\ UNCHANGED <<request, inputs, calls, api, page>>

\* a logout that signs out only when the server call succeeded
LogoutSettlesOnSuccess ==
    /\ \E i \in 1..Len(pending), ok \in BOOLEAN :
          /\ pending[i] = "logout"
          /\ pending' = Without(pending, i)
          /\ settled' = Settled("logout", ok)
          /\ IF ok
             THEN /\ apiToken' = setToken(null).apiToken
                  /\ localToken' = null
                  /\ user' = null
             ELSE UNCHANGED <<apiToken, localToken, user>>
    /\ UNCHANGED <<loading, error, mounted>>
    /\ UNCHANGED <<request, inputs, calls, api, page>>

\* logout after the server call succeeded or failed: the finally block
\* clears the token of the client, the user and the entry of localStorage
LogoutSettles ==
    /\ \E i \in 1..Len(pending), ok \in BOOLEAN :
          /\ pending[i] = "logout"
          /\ pending' = Without(pending, i)
          /\ settled' = Settled("logout", ok)
    /\ apiToken' = setToken(null).apiToken
    /\ localToken' = null
    /\ user' = null
    /\ UNCHANGED <<loading, error, mounted>>
    /\ UNCHANGED <<request, inputs, calls, api, page>>

\* updateProfile up to its await
UpdateProfile ==
    /\ mounted
    /\ Len(pending) < MaxPending
    /\ error' = null
    /\ pending' = Append(pending, "updateProfile")
    /\ UNCHANGED <<user, loading, apiToken, localToken, mounted, settled>>
    /\ UNCHANGED <<request, inputs, calls, api, page>>

\* updateProfile after the server answered
UpdateProfileResolves ==
    /\ \E i \in 1..Len(pending), data \in Profiles :
          /\ pending[i] = "updateProfile"
          /\ pending' = Without(pending, i)
          /\ user' = data
    /\ settled' = Settled("updateProfile", TRUE)
    /\ UNCHANGED <<loading, error, apiToken, localToken, mounted>>
    /\ UNCHANGED <<request, inputs, calls, api, page>>

\* updateProfile after the request failed
UpdateProfileRejects ==
    /\ \E i \in 1..Len(pending), message \in Messages :
          /\ pending[i] = "updateProfile"
          /\ pending' = Without(pending, i)
          /\ error' = message
    /\ settled' = Settled("updateProfile", FALSE)
    /\ UNCHANGED <<user, loading, apiToken, localToken, mounted>>
    /\ UNCHANGED <<request, inputs, calls, api, page>>

NextProvider ==
    \/ CheckAuthStatus \/ GetProfileResolves \/ GetProfileRejects
    \/ Login \/ Register \/ SignInResolves \/ SignInRejects
    \/ Logout \/ LogoutSettles
    \/ UpdateProfile \/ UpdateProfileResolves \/ UpdateProfileRejects

SpecProvider == InitProvider /\ [][NextProvider]_vars

-----------------------------------------------------------------------------
(* Properties *)

Lines == normalizeLines(decoded.text)

Max(S) == CHOOSE x \in S : \A y \in S : y <= x
Min(S) == CHOOSE x \in S : \A y \in S : x <= y

\* the value every pattern of ps captures on every line of ls
Captured(ls, ps) ==
    {parseFloat(Group(ls[i], ps[j], match(ls[i], ps[j]), 1)) :
        <<i, j>> \in {q \in (1..Len(ls)) \X (1..Len(ps)) : match(ls[q[1]], ps[q[2]]).ok}}

\* the response of a request that has been answered
TheResponse == responses[1]

\* C1: before the fallback, totalAmount is the largest value a total, amount or
\* sum pattern captures on any line, and 0 when no line matches one
C1_TotalIsMaximum ==
    pc = "fallback" =>
        LET captured == Captured(Lines, totalPatterns)
        IN  extractedData.totalAmount = (IF captured = {} THEN 0 ELSE Max(captured))

\* the largest total stands on the first line and a smaller one follows
C1_Witness ==
    /\ pc = "fallback"
    /\ LET ls == Lines
       IN  /\ Len(ls) = 2
           /\ Captured(<<ls[1]>>, totalPatterns) # {}
           /\ Captured(<<ls[2]>>, totalPatterns) # {}
           /\ Max(Captured(<<ls[1]>>, totalPatterns)) > Max(Captured(<<ls[2]>>, totalPatterns))
           /\ extractedData.totalAmount = Max(Captured(<<ls[1]>>, totalPatterns))

\* the lines on which some tax pattern matches
TaxLines(ls) ==
    {i \in 1..Len(ls) : \E j \in 1..Len(taxPatterns) : match(ls[i], taxPatterns[j]).ok}

\* what the first pattern that matches the line captures
TaxOfLine(line) ==
    LET j == Min({k \in 1..Len(taxPatterns) : match(line, taxPatterns[k]).ok})
    IN  parseFloat(Group(line, taxPatterns[j], match(line, taxPatterns[j]), 1))

\* C2: taxAmount is the value of the first line that matches a tax pattern,
\* later tax lines never overwrite it, and it is 0 when no line matches
C2_TaxIsFirstMatch ==
    pc = "fallback" =>
        LET ls == Lines
            taxLines == TaxLines(ls)
        IN  extractedData.taxAmount =
                (IF taxLines = {} THEN 0 ELSE TaxOfLine(ls[Min(taxLines)]))

\* a date, a description and an amount with a '+' directly before its digits
plusRowPattern ==
    [id |-> "plusrow",
     atoms |-> <<Rep(Digit, 1, 2), One(DateSep), Rep(Digit, 1, 2), One(DateSep),
                 Rep(Digit, 2, 4), Plus(SpaceChar), DotPlusLazy, Plus(SpaceChar),
                 One({"+"})>> \o AmountTail,
     groups |-> <<<<1, 5>>, <<7, 7>>, <<10, 12>>>>]

IsPlusRow(line) ==
    LET m == ExecFrom(plusRowPattern, line, 1)
    IN  /\ m.ok /\ m.start = 1 /\ m.ends[Len(m.ends)] = Len(line)
        /\ NewDate(Group(line, plusRowPattern, m, 1)) # InvalidDate
        /\ parseFloat(Group(line, plusRowPattern, m, 3)) > 0

PlusAmount(line) ==
    parseFloat(Group(line, plusRowPattern, ExecFrom(plusRowPattern, line, 1), 3))

\* the rows of a history response that are the income row of this amount
IncomeRows(rows, amount) ==
    {k \in 1..Len(rows) :
        /\ rows[k].type = "income" /\ rows[k].category = "other-income"
        /\ rows[k].amount = amount /\ rows[k].paymentMethod = "bank-transfer"}

\* C3: a row "date description +amount" yields exactly one transaction, of type
\* income, category other-income, the amount after the '+' and paymentMethod
\* bank-transfer
C3_PlusRowIsIncome ==
    (pc = "done" /\ Len(responses) = 1 /\ TheResponse.kind = "history") =>
        LET ls == Lines
        IN  \A i \in 1..Len(ls) :
                IsPlusRow(ls[i]) =>
                    Cardinality(IncomeRows(TheResponse.transactions[1], PlusAmount(ls[i]))) = 1

\* a file was uploaded and its text was decoded
Decoded == reqFile /\ decoded.kind = "text"

C5_PlaceholderOnFailure ==
    (pc = "done" /\ reqFile /\ decoded.kind \in {"throws", "undefined"}) =>
        /\ Len(responses) = 1
        /\ TheResponse.status = 200
        /\ Len(TheResponse.suggestedTransaction) = 1
        /\ TheResponse.suggestedTransaction[1].type = "expense"
        /\ TheResponse.suggestedTransaction[1].amount = 0
        /\ TheResponse.suggestedTransaction[1].category = "other-expense"
        /\ TheResponse.suggestedTransaction[1].description = "Manual entry required"
        /\ TheResponse.suggestedTransaction[1].date = Now

\* OCR threw for an uploaded image and the request was answered
C5_Witness ==
    /\ pc = "done" /\ route = "image" /\ reqFile /\ decoded.kind = "throws"
    /\ TheResponse.kind = "placeholder"

CarriesResult(r) == r.suggestedTransaction # <<>> \/ r.transactions # <<>>

\* C6 as stated: every request is answered exactly once, with 200 and a
\* suggestedTransaction or a transactions list when a file is attached and
\* with 400 when none is, and never by the 500 branch of a handler
C6_EveryRequestAnswered ==
    /\ Len(responses) <= 1
    /\ \A k \in 1..Len(responses) : responses[k].kind # "error"
    /\ pc = "done" =>
            /\ Len(responses) = 1
            /\ attached # "" => (TheResponse.status = 200 /\ CarriesResult(TheResponse))
            /\ attached = "" => TheResponse.status = 400

\* the upload middleware hands the request to the handler: it carries no
\* attachment, or one that passes the fileFilter
ReachesHandler == attached = "" \/ fileFilter(route, attached)

\* C6, amended: every request is answered exactly once and never by the 500
\* branch of a handler; a request that reaches the handler is answered 200
\* with a suggestedTransaction or a transactions list when req.file is set
\* and 400 when it is not
C6_HandlerAnswersOnce ==
    /\ Len(responses) <= 1
    /\ \A k \in 1..Len(responses) : responses[k].kind # "error"
    /\ pc = "done" => Len(responses) = 1
    /\ (pc = "done" /\ ReachesHandler) =>
            /\ reqFile <=> attached # ""
            /\ reqFile => (TheResponse.status = 200 /\ CarriesResult(TheResponse))
            /\ ~reqFile => TheResponse.status = 400

\* a PDF whose text came back undefined, answered once with 200
C6_Witness ==
    /\ pc = "done" /\ route = "pdf" /\ reqFile /\ decoded.kind = "undefined"
    /\ Len(responses) = 1 /\ TheResponse.status = 200 /\ CarriesResult(TheResponse)

RECURSIVE PriceSum(_, _)
PriceSum(items, n) == IF n = 0 THEN 0 ELSE PriceSum(items, n - 1) + items[n].price

\* C7: the fallback step sets totalAmount to the sum of the item prices when
\* no positive total was detected and an item was accepted, and otherwise
\* leaves the detected total as it is; the items are never changed
C7_TotalFallback ==
    [][pc = "fallback" =>
        /\ extractedData'.items = extractedData.items
        /\ extractedData'.totalAmount =
              (IF extractedData.totalAmount > 0 THEN extractedData.totalAmount
               ELSE IF Len(extractedData.items) >= 1
                    THEN PriceSum(extractedData.items, Len(extractedData.items))
               ELSE 0)]_vars

\* no total pattern matched, two items were accepted, the total is their sum
C7_Witness ==
    /\ pc = "done" /\ Decoded /\ TheResponse.kind = "receipt"
    /\ Captured(Lines, totalPatterns) = {}
    /\ Len(extractedData.items) = 2
    /\ extractedData.totalAmount = extractedData.items[1].price + extractedData.items[2].price

\* what the date pattern captures on the line, parsed
DateCapture(line, re) == NewDate(Group(line, re, match(line, re), 1))

\* the (line, pattern) pairs whose capture parses to a date
DatePairs(ls) ==
    {q \in (1..Len(ls)) \X (1..Len(datePatterns)) :
        /\ match(ls[q[1]], datePatterns[q[2]]).ok
        /\ DateCapture(ls[q[1]], datePatterns[q[2]]) # InvalidDate}

\* the (line, pattern) pairs whose capture does not parse
BadDatePairs(ls) ==
    {q \in (1..Len(ls)) \X (1..Len(datePatterns)) :
        /\ match(ls[q[1]], datePatterns[q[2]]).ok
        /\ DateCapture(ls[q[1]], datePatterns[q[2]]) = InvalidDate}

Precedes(p, q) == p[1] < q[1] \/ (p[1] = q[1] /\ p[2] <= q[2])

First(pairs) == CHOOSE p \in pairs : \A q \in pairs : Precedes(p, q)

\* C8: the date is the first capture, by line and then by pattern, that
\* parses to a valid date; captures that do not parse are skipped; the date
\* is null when none parses
C8_DateIsFirstParse ==
    pc = "fallback" =>
        LET ls == Lines
            pairs == DatePairs(ls)
        IN  extractedData.date =
                (IF pairs = {} THEN NoDate
                 ELSE DateCapture(ls[First(pairs)[1]], datePatterns[First(pairs)[2]]))

\* a capture that does not parse comes first, the next one parses and is
\* the date, and a later line holds another date
C8_Witness ==
    /\ pc = "fallback"
    /\ LET ls == Lines
           pairs == DatePairs(ls)
       IN  /\ pairs # {}
           /\ \E b \in BadDatePairs(ls) : Precedes(b, First(pairs))
           /\ \E q \in pairs :
                 /\ q[1] > First(pairs)[1]
                 /\ DateCapture(ls[q[1]], datePatterns[q[2]]) # extractedData.date
           /\ extractedData.date = DateCapture(ls[First(pairs)[1]], datePatterns[First(pairs)[2]])

\* the word occurs in the line, in any letter case
ContainsWord(line, w) ==
    \E i \in 0..(Len(line) - Len(w)) :
        \A k \in 1..Len(w) : LowerChar(CharAt(line, i + k)) = CharAt(w, k)

\* the line yields an item
IsItemLine(line) ==
    LET m == match(line, itemPattern)
    IN  /\ ~ContainsWord(line, "total") /\ ~ContainsWord(line, "tax")
        /\ m.ok
        /\ Len(trim(Group(line, itemPattern, m, 1))) > 2
        /\ parseFloat(Group(line, itemPattern, m, 2)) > 0

ItemOfLine(line) ==
    LET m == match(line, itemPattern)
    IN  [name |-> trim(Group(line, itemPattern, m, 1)),
         price |-> parseFloat(Group(line, itemPattern, m, 2)),
         quantity |-> 1]

\* C9: the items are, in line order, one item for each line that contains
\* neither "total" nor "tax" in any letter case and matches description,
\* optional '$', number with a description longer than 2 and a price above 0;
\* no other line leaves anything in the result
C9_ItemsAreAcceptedLines ==
    pc = "fallback" =>
        LET accepted == SelectSeq(Lines, IsItemLine)
        IN  /\ Len(extractedData.items) = Len(accepted)
            /\ \A k \in 1..Len(accepted) : extractedData.items[k] = ItemOfLine(accepted[k])

\* a line in upper case with "TAX" or "TOTAL" and a price is left out and the
\* other line is the only item
C9_Witness ==
    /\ pc = "fallback"
    /\ LET ls == Lines
       IN  /\ Len(ls) = 2
           /\ \E i \in 1..2 :
                 /\ includes(ls[i], "TAX") \/ includes(ls[i], "TOTAL")
                 /\ match(ls[i], itemPattern).ok
    /\ Len(extractedData.items) = 1

\* C10: totalAmount and taxAmount are never negative, every item has a price
\* above 0 and quantity 1
C10_AmountsAndItems ==
    /\ extractedData.totalAmount >= 0
    /\ extractedData.taxAmount >= 0
    /\ \A k \in 1..Len(extractedData.items) :
          extractedData.items[k].price > 0 /\ extractedData.items[k].quantity = 1

\* a result with an item, a tax and a total
C10_Witness ==
    /\ pc = "done" /\ Decoded
    /\ Len(extractedData.items) >= 1
    /\ extractedData.taxAmount > 0
    /\ extractedData.totalAmount > 0

\* the line holds "date", "amount" and one of "description", "transaction"
IsHistoryHeader(line) ==
    /\ ContainsWord(line, "date")
    /\ ContainsWord(line, "amount")
    /\ ContainsWord(line, "description") \/ ContainsWord(line, "transaction")

\* C12: a decoded PDF text is answered in history mode exactly when one of its
\* normalized lines holds, in any letter case, "date", "amount" and one of
\* "description", "transaction"; every other text is answered as a single
\* receipt
C12_HistoryModeRule ==
    (route = "pdf" /\ Decoded /\ pc = "done") =>
        LET ls == Lines
        IN  IF \E i \in 1..Len(ls) : IsHistoryHeader(ls[i])
            THEN TheResponse.kind = "history"
            ELSE TheResponse.kind = "receipt"

\* the words lie on different lines and the text is answered as a receipt
C12_Witness ==
    /\ route = "pdf" /\ Decoded /\ pc = "done"
    /\ IsHistoryHeader(decoded.text)
    /\ TheResponse.kind = "receipt"

-----------------------------------------------------------------------------
(* Properties of the direct calls *)

\* the call made last
LastCall == calls[Len(calls)]

Called(fn) == calls # <<>> /\ LastCall.fn = fn

CategoryOrder ==
    <<"food", "groceries", "gas", "shopping", "healthcare", "entertainment",
      "transportation", "utilities">>

KeywordsOf(category) ==
    LET k == CHOOSE i \in 1..Len(categoryKeywords) : categoryKeywords[i][1] = category
    IN  {categoryKeywords[k][2][n] : n \in 1..Len(categoryKeywords[k][2])}

\* the positions in CategoryOrder of the categories with a keyword in the name
CategoryHits(name) ==
    {k \in 1..Len(CategoryOrder) :
        \E keyword \in KeywordsOf(CategoryOrder[k]) : ContainsWord(name, keyword)}

\* C11: suggestCategory returns the first category, in the order food,
\* groceries, gas, shopping, healthcare, entertainment, transportation,
\* utilities, that has a keyword inside the name in any letter case, and
\* "other-expense" when no category has one, the empty name included
C11_FirstCategoryInOrder ==
    Called("suggestCategory") =>
        LET hits == CategoryHits(LastCall.input)
        IN  LastCall.result =
                (IF hits = {} THEN "other-expense" ELSE CategoryOrder[Min(hits)])

\* a name in capitals with keywords of two categories gets the earlier one
C11_Witness ==
    /\ Called("suggestCategory")
    /\ Cardinality(CategoryHits(LastCall.input)) = 2
    /\ LastCall.input # toLowerCase(LastCall.input)
    /\ LastCall.result = "groceries"

\* the lines of a statement text that are rows: the row pattern matches,
\* the date parses and the amount is above 0
RowLines(ls) ==
    {i \in 1..Len(ls) :
        LET m == match(ls[i], transactionPattern)
        IN  /\ m.ok
            /\ NewDate(Group(ls[i], transactionPattern, m, 1)) # InvalidDate
            /\ parseFloat(Group(ls[i], transactionPattern, m, 3)) > 0}

\* the k-th row line
RowLine(ls, k) ==
    LET rows == RowLines(ls)
    IN  ls[CHOOSE i \in rows : Cardinality({j \in rows : j <= i}) = k]

RowDescription(line) == trim(Group(line, transactionPattern, match(line, transactionPattern), 2))

\* the description names a deposit, a salary or a received payment, or the
\* line holds a '+'
IsIncomeLine(line) ==
    \/ ContainsWord(RowDescription(line), "deposit")
    \/ ContainsWord(RowDescription(line), "salary")
    \/ ContainsWord(RowDescription(line), "payment received")
    \/ "+" \in CharsOf(line)

\* C13: a parsed row is an income row exactly when its description holds
\* "deposit", "salary" or "payment received" in any letter case or its line
\* holds a '+'; every other parsed row is an expense row
C13_Polarity ==
    Called("parseTransactionHistory") =>
        LET ls == normalizeLines(LastCall.input)
            rows == LastCall.result
        IN  \A k \in 1..Len(rows) :
                k <= Cardinality(RowLines(ls)) =>
                    rows[k].type = (IF IsIncomeLine(RowLine(ls, k)) THEN "income" ELSE "expense")

\* a row that is income by its '+' alone, followed by an expense row
C13_Witness ==
    /\ Called("parseTransactionHistory")
    /\ Len(LastCall.result) = 2
    /\ LastCall.result[1].type = "income"
    /\ LastCall.result[1].description = "Refund +"
    /\ LastCall.result[2].type = "expense"

\* the category the keyword table gives a name
TableCategory(name) ==
    IF CategoryHits(name) = {} THEN "other-expense"
    ELSE CategoryOrder[Min(CategoryHits(name))]

\* C14: every row parseTransactionHistory emits has paymentMethod
\* "bank-transfer"; an income row has category "other-income"; an expense
\* row has the category suggestCategory gives its description
C14_RowCategoryAndMethod ==
    Called("parseTransactionHistory") =>
        \A k \in 1..Len(LastCall.result) :
            LET row == LastCall.result[k]
            IN  /\ row.paymentMethod = "bank-transfer"
                /\ row.type \in {"income", "expense"}
                /\ row.type = "income" => row.category = "other-income"
                /\ row.type = "expense" => row.category = TableCategory(row.description)

\* an income row and an expense row whose description the table classifies
C14_Witness ==
    /\ Called("parseTransactionHistory")
    /\ \E j, k \in 1..Len(LastCall.result) :
          /\ LastCall.result[j].type = "income"
          /\ LastCall.result[j].category = "other-income"
          /\ LastCall.result[k].type = "expense"
          /\ LastCall.result[k].category = "shopping"

RowAmount(line) ==
    parseFloat(Group(line, transactionPattern, match(line, transactionPattern), 3))

RowDate(line) ==
    NewDate(Group(line, transactionPattern, match(line, transactionPattern), 1))

\* C15: parseTransactionHistory emits one row for each line that matches the
\* row pattern with a date that parses and an amount above 0, in line order,
\* and nothing for any other line; every emitted amount is above 0 and the
\* output is empty when no line qualifies
C15_OneRowPerValidLine ==
    Called("parseTransactionHistory") =>
        LET ls == normalizeLines(LastCall.input)
            rows == LastCall.result
        IN  /\ Len(rows) = Cardinality(RowLines(ls))
            /\ \A k \in 1..Len(rows) :
                  /\ rows[k].amount > 0
                  /\ rows[k].amount = RowAmount(RowLine(ls, k))
                  /\ rows[k].date = RowDate(RowLine(ls, k))
                  /\ rows[k].description = RowDescription(RowLine(ls, k))

\* a line whose date does not parse is skipped and the row after it is the
\* only row
C15_Witness ==
    /\ Called("parseTransactionHistory")
    /\ LET ls == normalizeLines(LastCall.input)
       IN  /\ Len(ls) = 2
           /\ match(ls[1], transactionPattern).ok
           /\ RowDate(ls[1]) = InvalidDate
           /\ Len(LastCall.result) = 1
           /\ LastCall.result[1].description = RowDescription(ls[2])

Breaks(t) == {i \in 1..Len(t) : CharAt(t, i) = "\n"}

\* the end of the raw line that starts after position b
RawLineEnd(t, b) == Min({x \in Breaks(t) \cup {Len(t) + 1} : x > b})

\* the positions of the raw line after position b that are not white space
Ink(t, b) == {i \in (b + 1)..(RawLineEnd(t, b) - 1) : CharAt(t, i) \notin WhiteSpace}

\* the raw lines, by the position they start after, that are not blank
InkedLines(t) == {b \in {0} \cup Breaks(t) : Ink(t, b) # {}}

\* the text between the line breaks, from the first to the last position
\* that is not white space, for each raw line that has one, in order
LineStream(t) ==
    [k \in 1..Cardinality(InkedLines(t)) |->
        LET b == CHOOSE x \in InkedLines(t) :
                     Cardinality({y \in InkedLines(t) : y <= x}) = k
        IN  SubSeq(t, Min(Ink(t, b)), Max(Ink(t, b)))]

\* C19: the lines extractReceiptData works on are the raw lines of the text,
\* trimmed, without the empty ones, in order; merchantName is the first of
\* them; an empty or blank text gives merchantName "", totalAmount 0,
\* taxAmount 0, no date and no items
C19_LineStreamAndEmptyInput ==
    Called("extractReceiptData") =>
        LET ls == LineStream(LastCall.input)
        IN  /\ normalizeLines(LastCall.input) = ls
            /\ LastCall.result.merchantName = (IF Len(ls) = 0 THEN "" ELSE ls[1])
            /\ Len(ls) = 0 =>
                    /\ LastCall.result.totalAmount = 0
                    /\ LastCall.result.taxAmount = 0
                    /\ LastCall.result.date = NoDate
                    /\ LastCall.result.items = <<>>

\* a text of blanks and line breaks gives the empty result
C19_Witness ==
    /\ Called("extractReceiptData")
    /\ Breaks(LastCall.input) # {}
    /\ Len(LineStream(LastCall.input)) = 0
    /\ LastCall.result.merchantName = ""
    /\ LastCall.result.items = <<>>

\* a line "name price": the price is what follows the last space
LastSpace(line) == Max({i \in 1..Len(line) : CharAt(line, i) = " "})

NamePart(line) == SubSeq(line, 1, LastSpace(line) - 1)

PricePart(line) == parseFloat(SubSeq(line, LastSpace(line) + 1, Len(line)))

\* the lines a receipt text was made of
ReceiptOf(text) == CHOOSE ls \in ReceiptLines : join(ls) = text

\* merchant line, item lines, TAX line, TOTAL line read as what they say
ReceiptAsWritten(ls) ==
    [merchantName |-> ls[1],
     totalAmount |-> PricePart(ls[Len(ls)]),
     taxAmount |-> PricePart(ls[Len(ls) - 1]),
     date |-> NoDate,
     items |-> [k \in 1..(Len(ls) - 3) |->
                   [name |-> NamePart(ls[k + 1]), price |-> PricePart(ls[k + 1]),
                    quantity |-> 1]]]

HasSpacedNumber(s) ==
    \E i \in 2..(Len(s) - 1) :
        /\ CharAt(s, i) \in WhiteSpace
        /\ \/ CharAt(s, i + 1) \in Digit
           \/ i + 2 <= Len(s) /\ CharAt(s, i + 1) = "$" /\ CharAt(s, i + 2) \in Digit

LabelWords == {"total", "tax", "amount", "sum", "vat", "gst"}

\* an item line the extractor reads as written: a name of more than two
\* characters without a label word and without a number of its own, and a
\* price above 0
IsPlainItemLine(line) ==
    /\ Len(NamePart(line)) > 2
    /\ \A w \in LabelWords : ~ContainsWord(NamePart(line), w)
    /\ ~HasSpacedNumber(NamePart(line))
    /\ PricePart(line) > 0

IsPlainReceipt(ls) ==
    /\ ~HasSpacedNumber(ls[1])
    /\ \A k \in 2..(Len(ls) - 2) : IsPlainItemLine(ls[k])
    /\ PricePart(ls[Len(ls) - 1]) > 0
    /\ PricePart(ls[Len(ls)]) > 0

-----------------------------------------------------------------------------
(* Properties of the responses *)

\* C16: a single-receipt response carries one suggestedTransaction of type
\* expense whose amount is the detected total, or the sum of the item prices
\* when no positive total was detected and there are items, whose category is
\* the keyword table's category of the first line, and whose date is the
\* extracted date when there is one and the current time otherwise
C16_SingleReceiptTransaction ==
    (pc = "done" /\ Len(responses) = 1 /\ TheResponse.kind = "receipt") =>
        LET ls == Lines
            captured == Captured(ls, totalPatterns)
            detected == IF captured = {} THEN 0 ELSE Max(captured)
            items == extractedData.items
            pairs == DatePairs(ls)
        IN  /\ Len(TheResponse.suggestedTransaction) = 1
            /\ TheResponse.suggestedTransaction[1].type = "expense"
            /\ TheResponse.suggestedTransaction[1].amount =
                   (IF detected > 0 THEN detected ELSE PriceSum(items, Len(items)))
            /\ TheResponse.suggestedTransaction[1].amount = extractedData.totalAmount
            /\ TheResponse.suggestedTransaction[1].category =
                   TableCategory(IF ls = <<>> THEN "" ELSE ls[1])
            /\ TheResponse.suggestedTransaction[1].date =
                   (IF pairs = {} THEN Now
                    ELSE DateCapture(ls[First(pairs)[1]], datePatterns[First(pairs)[2]]))

\* a receipt with a date, items but no total line, and a merchant the table
\* classifies
C16_Witness ==
    /\ pc = "done" /\ Len(responses) = 1 /\ TheResponse.kind = "receipt"
    /\ Captured(Lines, totalPatterns) = {}
    /\ TheResponse.suggestedTransaction[1].amount > 0
    /\ TheResponse.suggestedTransaction[1].category = "food"
    /\ TheResponse.suggestedTransaction[1].date # Now
    /\ TheResponse.suggestedTransaction[1].date = extractedData.date

\* the row a row line stands for
RowOfLine(line) ==
    [type |-> IF IsIncomeLine(line) THEN "income" ELSE "expense",
     amount |-> RowAmount(line),
     description |-> RowDescription(line),
     category |-> IF IsIncomeLine(line) THEN "other-income"
                  ELSE TableCategory(RowDescription(line)),
     date |-> RowDate(line),
     paymentMethod |-> "bank-transfer"]

\* C17: a text in history mode is answered with the rows of its row lines,
\* one per line, in line order and unaltered, and with nothing else: no
\* suggestedTransaction and no receipt extraction, also when there is no row
C17_HistoryListUnmodified ==
    (route = "pdf" /\ Decoded /\ pc = "done") =>
        LET ls == Lines
        IN  (\E i \in 1..Len(ls) : IsHistoryHeader(ls[i])) =>
                /\ Len(responses) = 1
                /\ TheResponse.kind = "history"
                /\ TheResponse.suggestedTransaction = <<>>
                /\ TheResponse.extractedData = <<>>
                /\ extractedData = emptyData
                /\ Len(TheResponse.transactions[1]) = Cardinality(RowLines(ls))
                /\ \A k \in 1..Len(TheResponse.transactions[1]) :
                      TheResponse.transactions[1][k] = RowOfLine(RowLine(ls, k))

\* a statement header without any row is answered with the empty list
C17_Witness ==
    /\ route = "pdf" /\ Decoded /\ pc = "done"
    /\ \E i \in 1..Len(Lines) : IsHistoryHeader(Lines[i])
    /\ TheResponse.kind = "history"
    /\ TheResponse.transactions = << <<>> >>

-----------------------------------------------------------------------------
(* Properties of the JSON API *)

\* the users whose requests reach a handler
Callers == {authorized[authorization].user : authorization \in Passed}

\* the category of a transaction belongs to the taxonomy of its type
InTaxonomy(category, type) == category \in getCategoriesByType(type)

\* a body that carries a category outside the taxonomy of its type
OffTaxonomy(body) ==
    /\ Has(body.category)
    /\ ~(Has(body.type) /\ InTaxonomy(Val(body.category), Val(body.type)))

\* an outcome that is an error response and leaves the collection as it was
Rejected(out, st) == out.status >= 400 /\ out.store = st

\* the transactions an outcome adds to the collection
Added(out, st) == out.store \ st

\* C21: create-transaction and bulk-create-transactions store no transaction
\* whose category is outside the taxonomy of its type, and a request that
\* carries such a category (the sentinels "other-expense" and "other-income"
\* among them) is answered with an error and leaves the collection unchanged
C21_CategoryRevalidated ==
    LET st == store
        cb == createdBy
    IN \A uid \in Callers :
          /\ \A body \in CreateBodies :
                LET out == createTransaction(st, cb, uid, body)
                IN /\ \A t \in Added(out, st) : InTaxonomy(t.category, t.type)
                   /\ OffTaxonomy(body) => Rejected(out, st)
          /\ \A bodies \in BulkBodies :
                LET out == bulkCreateTransactions(st, cb, uid, bodies)
                IN /\ \A t \in Added(out, st) : InTaxonomy(t.category, t.type)
                   /\ (\E i \in 1..Len(bodies) : OffTaxonomy(bodies[i]))
                         => Rejected(out, st)

\* bulk-create-transactions answered 500 on a collection that holds a
\* transaction: its array passed the request rules, so the category
\* validator of the schema refused a document
C21_Witness ==
    /\ served.route = "POST /api/receipts/bulk-create-transactions"
    /\ served.status = 500
    /\ store # {}
    /\ \E bodies \in BulkBodies :
          /\ \E i \in 1..Len(bodies) : Val(bodies[i].category) = "other-income"
          /\ bulkCreateTransactions(store, createdBy, served.user, bodies).status = 500

\* C22: every label suggestCategory returns, other than "other-expense", is a
\* member of getCategoriesByType("expense")
C22_SuggestionInTaxonomy ==
    \A i \in 1..Len(calls) :
        (calls[i].fn = "suggestCategory" /\ calls[i].result # "other-expense")
            => calls[i].result \in getCategoriesByType("expense")

\* C23: after any sequence of POST, PUT and DELETE requests on
\* /api/transactions, the category of every stored transaction belongs to
\* getCategoriesByType of its stored type
C23_StoredCategoryInTaxonomy == \A t \in store : InTaxonomy(t.category, t.type)

\* C24: the user field of every stored transaction is the id of the
\* authenticated user whose request created it
C24_OwnerIsCreator == \A t \in store : t.user = createdBy[t.id]

\* the stored transactions that belong to somebody other than the user
OthersOf(st, uid) == {t \in st : t.user # uid}

\* a PUT body that breaks one of the validation rules of the route
BreaksUpdateRules(body) ==
    \/ Has(body.type) /\ Val(body.type) \notin {"income", "expense"}
    \/ Has(body.amount) /\ Val(body.amount) < 1
    \/ Has(body.description) /\ trim(Val(body.description)) = ""
    \/ Has(body.category) /\ Val(body.category) = ""

\* C25 as stated: a GET, PUT or DELETE on /api/transactions/:id by a user who
\* does not own the transaction is answered 404 and changes no stored
\* transaction
C25_NonOwnerAnswered404 ==
    LET st == store
        cb == createdBy
    IN \A uid \in Callers : \A t \in OthersOf(st, uid) :
          /\ getTransaction(st, cb, uid, t.id) = Outcome(404, st, cb)
          /\ deleteTransaction(st, cb, uid, t.id) = Outcome(404, st, cb)
          /\ \A body \in UpdateBodies :
                putTransaction(st, cb, uid, t.id, body) = Outcome(404, st, cb)

\* C25: a GET, PUT or DELETE on /api/transactions/:id by a user who does not
\* own the transaction changes no stored transaction and is answered 404,
\* except a PUT whose body breaks a validation rule, which is answered 400
C25_NonOwnerIsolated ==
    LET st == store
        cb == createdBy
    IN \A uid \in Callers : \A t \in OthersOf(st, uid) :
          /\ getTransaction(st, cb, uid, t.id) = Outcome(404, st, cb)
          /\ deleteTransaction(st, cb, uid, t.id) = Outcome(404, st, cb)
          /\ \A body \in UpdateBodies :
                putTransaction(st, cb, uid, t.id, body) =
                    Outcome(IF BreaksUpdateRules(body) THEN 400 ELSE 404, st, cb)

\* a PUT or DELETE that named a stored transaction of another user has been
\* answered 404, with a second transaction in the collection
C25_Witness ==
    /\ served.route \in {"PUT /api/transactions/:id", "DELETE /api/transactions/:id"}
    /\ served.status = 404
    /\ \E t \in store : t.id = served.id /\ t.user # served.user
    /\ Cardinality(store) = 2

\* one of amount, category, date, description and type is missing or falsy
Incomplete(body) ==
    \/ body.amount \in {Absent, <<0>>}
    \/ body.category \in {Absent, <<"">>}
    \/ body.date \in {Absent, <<"">>}
    \/ body.description \in {Absent, <<"">>}
    \/ body.type \in {Absent, <<"">>}

\* C26: create-transaction answers 400 and stores nothing when one of
\* amount, category, date, description and type is missing or falsy (amount 0
\* of the manual-entry placeholder included), and stores a transaction only
\* when all five are present
C26_FiveFieldsRequired ==
    LET st == store
        cb == createdBy
    IN \A uid \in Callers : \A body \in CreateBodies :
          LET out == createTransaction(st, cb, uid, body)
          IN /\ Incomplete(body) => out = Outcome(400, st, cb)
             /\ out.store # st => ~Incomplete(body)

\* create-transaction has answered 400 while the collection held a transaction
C26_Witness ==
    /\ served.route = "POST /api/receipts/create-transaction"
    /\ served.status = 400
    /\ store # {}

\* the users a header authenticates: its Bearer token verifies, and the user
\* named in the token exists and is active
Authenticates(authorization) ==
    {Signed[token] : token \in {k \in DOMAIN Signed :
        /\ authorization = "Bearer " \o k
        /\ Signed[k] \in DOMAIN Users
        /\ Users[Signed[k]].isActive}}

\* C27: protect lets a request through only when its Bearer token verifies
\* and its user exists and is active, with req.user.id that user's id; any
\* other request is answered 401, its handler does not run and the
\* collection is left as it was
C27_AuthGate ==
    /\ [](/\ \A authorization \in Headers :
               IF Authenticates(authorization) = {}
               THEN authorized[authorization] = [status |-> 401, user |-> ""]
               ELSE /\ authorized[authorization].status = 0
                    /\ Authenticates(authorization) = {authorized[authorization].user}
          /\ served.route # "" =>
               IF served.status = 401 THEN served.user = ""
               ELSE \E authorization \in Headers :
                       served.user \in Authenticates(authorization))
    /\ [][served'.status = 401 => UNCHANGED <<store, createdBy>>]_vars

\* a request has been answered 401 while the collection held a transaction
C27_Witness == served.status = 401 /\ store # {}

\* the sum of the amounts of a set of transactions
RECURSIVE SumOfAmounts(_)
SumOfAmounts(docs) ==
    IF docs = {} THEN 0
    ELSE LET t == CHOOSE x \in docs : TRUE IN t.amount + SumOfAmounts(docs \ {t})

\* C29: for period 'all', GET /api/analytics/summary reports as totalIncome
\* and totalExpenses the sums of the amounts of the authenticated user's
\* stored income and expense transactions, the totals that the summary of an
\* unfiltered GET /api/transactions reports
C29_SummaryIsPerUserTotals ==
    LET st == store
        cb == createdBy
    IN \A uid \in Callers : \A ignoreUndefined \in BOOLEAN :
          LET analytics == getSummary(st, cb, uid, ignoreUndefined)
              listing == getTransactions(st, cb, uid)
          IN /\ analytics.income =
                    SumOfAmounts({t \in st : t.user = uid /\ t.type = "income"})
             /\ analytics.expenses =
                    SumOfAmounts({t \in st : t.user = uid /\ t.type = "expense"})
             /\ analytics.income = listing.income
             /\ analytics.expenses = listing.expenses

-----------------------------------------------------------------------------
(* Properties of ReceiptsPage *)

\* C28: once a call of handleFileUpload has ended, with the upload answered
\* or failed, the progress interval it started ticks no more, and processing
\* is false when every call has ended
C28_NoIntervalOutlivesItsUpload ==
    /\ \A i \in 1..Len(uploads) : uploads[i].phase = "ended" => ~uploads[i].interval
    /\ (\A i \in 1..Len(uploads) : uploads[i].phase = "ended") => ~processing

-----------------------------------------------------------------------------
(* Properties of AuthProvider *)

\* a step in which a login or a register finishes in failure
SignInFails ==
    /\ Len(pending') < Len(pending)
    /\ settled'.op \in {"login", "register"}
    /\ ~settled'.ok

\* C30: isAuthenticated is true exactly when user is not null; a logout ends
\* with user null and the token cleared from apiClient and from localStorage,
\* whether its server call succeeded or failed; a login or register that
\* fails leaves user as it was, sets error and ends with loading false
C30_AuthSession ==
    /\ [](isAuthenticated <=> user \in Profiles)
    /\ [](settled.op = "logout" =>
             user = null /\ apiToken = null /\ localToken = null)
    /\ [][SignInFails => (user' = user /\ error' \in Messages /\ loading' = FALSE)]_vars

\* a logout whose server call failed has ended while another call was
\* awaiting the server
C30_Witness ==
    /\ settled = [op |-> "logout", ok |-> FALSE]
    /\ pending # <<>>

=============================================================================
